---- MODULE Spec2Model ----
(***************************************************************************)
(* AIFormFiller: the bulk autofill run of background.js (processAutofill), *)
(* its worker pool (runWithConcurrency), retry wrapper (withRetry) and     *)
(* retrieval client (queryFieldBatchAnswers), against a page that answers  *)
(* GET_FORM_FIELDS and FILL_FORM_FIELD messages; and the content script    *)
(* that answers them (collectFields, fillField, the availability check)    *)
(* with the sensitive-field classifier of lib/field-safety.js.             *)
(***************************************************************************)
EXTENDS Integers, Sequences, FiniteSets, TLC

\* ------------------------------------------------------------------ bounds
\* Most fields the page returns.
MaxFields == 9
\* Most fields on the page that repeat the content of an earlier field.
MaxDup == 1
\* Most failed retrieval attempts the service produces in one run.
MaxFailedAttempts == 3
\* Most FILL_FORM_FIELD messages the page answers with ok = false in one run.
MaxRefused == 1
\* Most form elements a page starts with.
MaxElements == 2

\* ------------------------------------------------------- program constants
AUTOFILL_BATCH_SIZE == 4
AUTOFILL_MAX_CONCURRENCY == 2
AUTOFILL_RETRIES == 3
\* Backoff base, cap and jitter range of withRetry, in milliseconds.
BackoffBaseMs == 400
BackoffCapMs == 5000
JitterRange == 120

VARIABLES
    settings,             \* stored settings: [apiKey, vectorStoreId] present or not
    pageFields,           \* what the page's collectFields(false) returns
    pc,                   \* position of processAutofill
    fields,               \* the collected field list of the run
    batches,              \* chunkArray(uniqueFields, AUTOFILL_BATCH_SIZE)
    queue,                \* runWithConcurrency's queue (indexes into batches)
    workers,              \* the pool's workers
    answerByFingerprint,  \* Map fingerprint -> cleaned answer
    errorByFingerprint,   \* Map fingerprint -> error message
    calls,                \* requests sent by queryFieldBatchAnswers
    failedAttempts,       \* failed retrieval attempts so far
    tracing,              \* whether this run keeps attemptLog
    fieldsResponse,       \* what came back for GET_FORM_FIELDS: "none", "ok", "failed"
    failedBatches,        \* batches whose retrieval ended in the worker's catch
    attemptLog,           \* per batch, the outcome of each attempt made, in order
    cursor,               \* loop index i of the apply loop, 1-based
    filled,
    skipped,
    refused,              \* fill messages the page answered with ok = false
    sent,                 \* FILL_FORM_FIELD messages sent, in order
    outbox,               \* messages emitted through safeRuntimeMessage, in order
    dom,                  \* the document's form elements, in document order
    fieldMap,             \* the content script's Map uid -> element (its node)
    uidCounter,           \* the content script's uidCounter
    lastKnownHasForm,     \* the content script's lastKnownHasForm
    availabilityTimer,    \* whether the debounced availability check is pending
    collected,            \* the GET_FORM_FIELDS exchange, once there has been one
    filling,              \* the FILL_FORM_FIELD exchange, once there has been one
    activeHoverField,     \* the content script's activeHoverField (a node, or none)
    hideTimer,            \* whether the timer of scheduleHideHoverButton is pending
    hoverStatus,          \* what showFieldStatus has displayed, in order
    flow,                 \* the click handler of the hover button
    request               \* the FILL_SINGLE_FIELD request in the background

\* The content script's side: the page and the script's state.
pageVars == <<dom, fieldMap, uidCounter, lastKnownHasForm, availabilityTimer,
              collected, filling>>

\* The background's side: the bulk run.
bulkVars == <<tracing, fieldsResponse, failedBatches, settings, pageFields, pc, fields,
              batches, queue, workers, answerByFingerprint, errorByFingerprint, calls,
              failedAttempts, attemptLog, cursor, filled, skipped, refused, sent, outbox>>

\* The hover button and the single-field request.
hoverVars == <<activeHoverField, hideTimer, hoverStatus, flow, request>>

vars == <<pageVars, bulkVars, hoverVars>>

\* ----------------------------------------------------------------- helpers
Min(a, b) == IF a < b THEN a ELSE b

RECURSIVE Pow2(_)
Pow2(n) == IF n = 0 THEN 1 ELSE 2 * Pow2(n - 1)

Range(s) == {s[k] : k \in 1..Len(s)}

\* ------------------------------------------------------------------- texts
\* A free-text attribute is a word written in lower or in upper case.
Text(word, upper) == [w |-> word, up |-> upper]

\* String.prototype.toLowerCase
toLowerCase(text) == [w |-> text.w, up |-> FALSE]

\* A model answer is a sequence of tokens: whitespace, a double quote, the
\* NOT_FOUND sentinel in some letter case, or a value word.
Space == <<"space", 0>>
Quote == <<"quote", 0>>
ValueTok(word) == <<"value", word>>
SentinelUpper == <<"NOT_FOUND", 0>>
SentinelLower == <<"not_found", 0>>
EmptyAnswer == <<>>

RECURSIVE trimStart(_)
trimStart(s) ==
    IF s # <<>> /\ Head(s) = Space THEN trimStart(Tail(s)) ELSE s

RECURSIVE trimEnd(_)
trimEnd(s) ==
    IF s # <<>> /\ s[Len(s)] = Space THEN trimEnd(SubSeq(s, 1, Len(s) - 1)) ELSE s

trim(s) == trimEnd(trimStart(s))

\* replace(/^"|"$/g, ""): one leading and one trailing double quote are removed.
stripQuotes(s) ==
    LET a == IF s # <<>> /\ Head(s) = Quote THEN Tail(s) ELSE s
    IN  IF a # <<>> /\ a[Len(a)] = Quote THEN SubSeq(a, 1, Len(a) - 1) ELSE a

\* /^NOT_FOUND$/i
isNotFoundSentinel(s) == Len(s) = 1 /\ s[1] \in {SentinelUpper, SentinelLower}

cleanModelAnswer(answer) ==
    LET stripped == stripQuotes(trim(answer))
    IN  IF stripped = <<>> THEN EmptyAnswer
        ELSE IF isNotFoundSentinel(stripped) THEN EmptyAnswer
        ELSE stripped

\* ------------------------------------------------------------- descriptors
UidOf(k) == 100 + k

\* The k-th field of a page with d distinct contents and dups repeated ones.
\* layout "tail": the repeats of contents 1..dups follow the d originals;
\* layout "adjacent": each repeat directly follows its original.
\* A repeat differs from its original in uid, letter case, required,
\* autocomplete and aria-label. GET_FORM_FIELDS is asked without the
\* sensitive fields, so every descriptor returned has sensitive = false.
ContentIndex(layout, d, dups, k) ==
    IF layout = "tail"
    THEN (IF k <= d THEN k ELSE k - d)
    ELSE (IF k <= 2 * dups THEN (k + 1) \div 2 ELSE k - dups)

IsRepeat(layout, d, dups, k) ==
    IF layout = "tail" THEN k > d ELSE (k <= 2 * dups /\ k % 2 = 0)

Descriptor(layout, d, dups, k) ==
    [uid      |-> UidOf(k),
     tag      |-> "input",
     type     |-> "text",
     autocomplete |-> IF IsRepeat(layout, d, dups, k) THEN "on" ELSE "",
     ariaLabel |-> IF IsRepeat(layout, d, dups, k) THEN "again" ELSE "",
     label    |-> Text(ContentIndex(layout, d, dups, k), IsRepeat(layout, d, dups, k)),
     required |-> IsRepeat(layout, d, dups, k),
     sensitive |-> FALSE,
     sensitiveReason |-> ""]

PageFieldLists ==
    {[k \in 1..(d + dups) |-> Descriptor(layout, d, dups, k)] :
        <<layout, d, dups>> \in
            {<<l, d, n>> \in {"tail", "adjacent"} \X (0..MaxFields) \X (0..MaxDup) :
                /\ n <= d
                /\ d + n <= MaxFields
                /\ (l = "adjacent" => n > 0)}}

\* Mutant: the fingerprint tells a required field from an optional one.
fieldFingerprint_WithRequired(field) ==
    [label |-> toLowerCase(field.label),
     type  |-> field.type,
     tag   |-> IF field.required THEN "required" ELSE field.tag]

fieldFingerprint(field) ==
    [label |-> toLowerCase(field.label),
     type  |-> field.type,
     tag   |-> field.tag]

\* The byFingerprint Map of processAutofill, as the list of its values: the
\* first field of each fingerprint, in insertion order.
RECURSIVE uniqueFieldsFrom(_, _, _)
uniqueFieldsFrom(fs, k, acc) ==
    IF k > Len(fs) THEN acc
    ELSE IF \E j \in 1..Len(acc) : fieldFingerprint(acc[j]) = fieldFingerprint(fs[k])
         THEN uniqueFieldsFrom(fs, k + 1, acc)
         ELSE uniqueFieldsFrom(fs, k + 1, Append(acc, fs[k]))

\* Mutant: no deduplication, every collected field is a representative.
uniqueFields_KeepDuplicates(fs) == fs

uniqueFields(fs) == uniqueFieldsFrom(fs, 1, <<>>)

RECURSIVE chunkFrom(_, _, _, _)
chunkFrom(values, size, k, chunks) ==
    IF k > Len(values) THEN chunks
    ELSE chunkFrom(values, size, k + size,
                   Append(chunks, SubSeq(values, k, Min(k + size - 1, Len(values)))))

\* Mutant: only full chunks are kept, a shorter last chunk is dropped.
chunkArray_FullChunksOnly(values, size) ==
    chunkFrom(SubSeq(values, 1, Len(values) - (Len(values) % size)), size, 1, <<>>)

chunkArray(values, size) == chunkFrom(values, size, 1, <<>>)

\* ------------------------------------------------------------------ errors
\* Number(undefined) is NaN: an error without a status compares false everywhere.
NoStatus == 0

NoError == [status |-> NoStatus, message |-> <<"", 0>>]

classifyHttpError(status) ==
    IF status = 401 \/ status = 403 THEN <<"errAuthFailedCheckApiKey", 0>>
    ELSE IF status = 429 THEN <<"errRateLimitedRetry", 0>>
    ELSE IF status >= 500 THEN <<"errOpenAiService", 0>>
    ELSE <<"errOpenAiStatus", status>>

createHttpError(status) == [status |-> status, message |-> classifyHttpError(status)]

\* The AbortError branch of queryFieldBatchAnswers.
timeoutError == [status |-> 408, message |-> <<"errOpenAiTimeout", 0>>]

invalidModelOutputError == [status |-> NoStatus, message |-> <<"errInvalidModelOutput", 0>>]

\* The outcome of an attempt answered 200 with a parsable object, in the log.
okResponse(style) == [status |-> 200, message |-> <<style, 0>>]

\* fetch rejecting with a TypeError (no connection).
networkError == [status |-> NoStatus, message |-> <<"Failed to fetch", 0>>]

\* Mutant: every failure is retried.
shouldRetry_Always(error) == TRUE

\* Mutant: a rate-limited request is not retried.
shouldRetry_Without429(error) ==
    error.status = 408 \/ error.status >= 500

shouldRetry(error) ==
    error.status = 408 \/ error.status = 429 \/ error.status >= 500

\* Mutant: the exponent is the attempt number.
backoffDelay_ExponentOffByOne(attempt, jitter) ==
    Min(BackoffCapMs, BackoffBaseMs * Pow2(attempt)) + jitter

\* Math.min(5000, 400 * (2 ** (attempt - 1))) + Math.floor(Math.random() * 120)
backoffDelay(attempt, jitter) ==
    Min(BackoffCapMs, BackoffBaseMs * Pow2(attempt - 1)) + jitter

\* Values of Math.floor(Math.random() * 120) the model draws.
JitterSamples == {0, JitterRange - 1}

\* HTTP failure statuses the service answers with.
HttpErrorStatuses == {400, 401, 403, 408, 429, 500}

\* ---------------------------------------------------------- the model reply
\* The JSON object of a 200 response: key -> raw value.  A raw value is a
\* string (a token sequence) or something that is not a string.
RawString(text) == [isString |-> TRUE, text |-> text]
RawNumber == [isString |-> FALSE, text |-> <<>>]

\* A key the caller never supplied.
ForeignUid == 0

ReplyStyles == {"all", "mixed", "array"}

\* "all": every uid answered with its value, every second one quoted and padded;
\* "mixed": by position in the batch a value, the sentinel (bare upper case for
\*          an even uid, quoted lower case for an odd one), no key at all, a
\*          number; and one key that is no supplied uid;
\* "array": a JSON array, which has no property named like a uid.
ModelReply(style, batch) ==
    LET Pos(u) == CHOOSE k \in 1..Len(batch) : batch[k].uid = u
        Val(u) == ValueTok(batch[Pos(u)].label.w)
        uids == {batch[k].uid : k \in 1..Len(batch)}
    IN  IF style = "array" THEN <<>>
        ELSE IF style = "all"
        THEN [u \in uids |->
                IF Pos(u) % 2 = 1 THEN RawString(<<Val(u)>>)
                ELSE RawString(<<Space, Quote, Val(u), Quote, Space>>)]
        ELSE [u \in {v \in uids : Pos(v) % 4 # 3} \cup {ForeignUid} |->
                IF u = ForeignUid THEN RawString(<<ValueTok(0)>>)
                ELSE IF Pos(u) % 4 = 1 THEN RawString(<<Val(u)>>)
                ELSE IF Pos(u) % 4 = 2
                     THEN (IF u % 2 = 0 THEN RawString(<<SentinelUpper>>)
                           ELSE RawString(<<Quote, SentinelLower, Quote>>))
                ELSE RawNumber]

\* What JSON.parse yields: null, a scalar, an array or an object, with its
\* truthiness in JavaScript.
JsonValue(type, truthy) == [type |-> type, truthy |-> truthy]

JsonNull == JsonValue("null", FALSE)

\* An output text of the model: whether JSON can be parsed out of it, the
\* value it parses to, and for an object or an array its content (a style).
OutputText(parses, json, style) == [parses |-> parses, json |-> json, style |-> style]

\* The output texts of the model: empty or without JSON in it; null; the
\* scalars 0, 7, "text", false; and the arrays and objects of ModelReply.
ModelOutputs ==
    {OutputText(FALSE, JsonNull, "none"),
     OutputText(TRUE, JsonNull, "none"),
     OutputText(TRUE, JsonValue("number", FALSE), "none"),
     OutputText(TRUE, JsonValue("number", TRUE), "none"),
     OutputText(TRUE, JsonValue("string", TRUE), "none"),
     OutputText(TRUE, JsonValue("boolean", FALSE), "none")}
    \cup {OutputText(TRUE, JsonValue(IF style = "array" THEN "array" ELSE "object", TRUE), style) :
             style \in ReplyStyles}

\* extractJsonObject: the parsed value, or null when nothing parses.
extractJsonObject(text) == IF text.parses THEN text.json ELSE JsonNull

\* The typeof operator: null and arrays are objects.
typeof(value) ==
    IF value.type \in {"null", "array", "object"} THEN "object" ELSE value.type

\* !parsed || typeof parsed !== "object"
isInvalidModelOutput(parsed) == ~parsed.truthy \/ typeof(parsed) # "object"

\* Mutant: every key of the parsed object gets an answer.
answersByUid_EveryKey(parsed, batch) ==
    [u \in {batch[k].uid : k \in 1..Len(batch)} \cup DOMAIN parsed |->
        cleanModelAnswer(IF u \in DOMAIN parsed /\ parsed[u].isString
                         THEN parsed[u].text ELSE <<>>)]

\* answersByUid of queryFieldBatchAnswers for a parsed object.
answersByUid(parsed, batch) ==
    [u \in {batch[k].uid : k \in 1..Len(batch)} |->
        cleanModelAnswer(IF u \in DOMAIN parsed /\ parsed[u].isString
                         THEN parsed[u].text ELSE <<>>)]

\* ---------------------------------------------------------------- messages
StatusMsg(kind, isError) ==
    [type |-> "AUTOFILL_STATUS", kind |-> kind, error |-> isError,
     index |-> 0, total |-> 0, detail |-> <<"", 0>>, filled |-> 0, skipped |-> 0]

CompletedMsg(f, s) ==
    [type |-> "AUTOFILL_STATUS", kind |-> "statusCompletedFilledSkipped", error |-> FALSE,
     index |-> 0, total |-> 0, detail |-> <<"", 0>>, filled |-> f, skipped |-> s]

ProgressMsg(kind, index, total, detail) ==
    [type |-> "AUTOFILL_PROGRESS", kind |-> kind, error |-> FALSE,
     index |-> index, total |-> total, detail |-> detail, filled |-> 0, skipped |-> 0]

FillMsg(uid, value) ==
    [type |-> "FILL_FORM_FIELD", uid |-> uid, value |-> value, allowSensitive |-> FALSE]

\* ------------------------------------------------------------- worker pool
Running(b, attempt, lastError) ==
    [st |-> "inflight", b |-> b, attempt |-> attempt, lastError |-> lastError, delay |-> 0]

Sleeping(b, attempt, lastError, delay) ==
    [st |-> "sleeping", b |-> b, attempt |-> attempt, lastError |-> lastError, delay |-> delay]

Finished == [st |-> "done", b |-> 0, attempt |-> 0, lastError |-> NoError, delay |-> 0]

\* Mutant: one worker per item, the limit ignored.
poolSize_Unbounded(items, limit) == Len(items)

\* The synchronous start of runWithConcurrency: Math.min(limit, items.length)
\* workers, each shifting one item off the queue and sending its first request.
poolSize(items, limit) == Min(limit, Len(items))

\* Mutant: a worker leaves its loop after its first item.
WorkerContinues_OneItemEach(w) ==
    /\ workers' = [workers EXCEPT ![w] = Finished]
    /\ UNCHANGED <<queue, calls>>

\* The while loop of a worker after its item resolved: shift the next item and
\* send its first request, or leave the loop.
WorkerContinues(w) ==
    IF queue # <<>>
    THEN /\ workers' = [workers EXCEPT ![w] = Running(Head(queue), 1, NoError)]
         /\ queue' = Tail(queue)
         /\ calls' = calls + 1
    ELSE /\ workers' = [workers EXCEPT ![w] = Finished]
         /\ UNCHANGED <<queue, calls>>

BatchKeys(batch) == {fieldFingerprint(batch[k]) : k \in 1..Len(batch)}

FieldOfKey(batch, key) ==
    batch[CHOOSE k \in 1..Len(batch) : fieldFingerprint(batch[k]) = key]

\* answerByFingerprint.set(key, answersByUid[field.uid] || "") for the batch
recordAnswers(map, batch, byUid) ==
    [key \in DOMAIN map \cup BatchKeys(batch) |->
        IF key \in BatchKeys(batch) THEN byUid[FieldOfKey(batch, key).uid] ELSE map[key]]

\* errorByFingerprint.set(key, error.message || "request failed") for the batch
recordErrors(map, batch, error) ==
    [key \in DOMAIN map \cup BatchKeys(batch) |->
        IF key \in BatchKeys(batch) THEN error.message ELSE map[key]]

\* attemptLog after batch b's attempt ended with outcome.
logged(b, outcome) ==
    IF tracing THEN [attemptLog EXCEPT ![b] = Append(@, outcome)] ELSE attemptLog

\* ------------------------------------------------------------ page strings
\* A page string is a sequence of tokens: whitespace and words. A word is
\* written in lower case (ValueTok) or with capital letters (UpperTok).
UpperTok(word) == <<"VALUE", word>>

lowerTok(tok) ==
    IF tok[1] = "VALUE" THEN ValueTok(tok[2])
    ELSE IF tok = SentinelUpper THEN SentinelLower
    ELSE tok

IsWord(tok) == tok[1] \in {"value", "VALUE"}

\* String.prototype.toLowerCase on a page string.
lowerCase(s) == [k \in 1..Len(s) |-> lowerTok(s[k])]

\* replace(/\s+/g, " "): a run of whitespace becomes one space.
RECURSIVE collapseSpaces(_)
collapseSpaces(s) ==
    IF Len(s) < 2 THEN s
    ELSE IF s[1] = Space /\ s[2] = Space THEN collapseSpaces(Tail(s))
    ELSE <<s[1]>> \o collapseSpaces(Tail(s))

cleanText(s) == trim(collapseSpaces(s))

\* clean of lib/field-safety.js.
clean(s) == trim(collapseSpaces(s))

\* String.prototype.includes.
includes(hay, needle) ==
    \E i \in 0..(Len(hay) - Len(needle)) : SubSeq(hay, i + 1, i + Len(needle)) = needle

\* split(/\s+/).filter(Boolean): the words of a string.
splitWords(s) == SelectSeq(s, LAMBDA tok : tok # Space)

\* filter(Boolean).join(" ") over a list of strings.
RECURSIVE joinNonEmpty(_)
joinNonEmpty(parts) ==
    IF parts = <<>> THEN <<>>
    ELSE LET rest == joinNonEmpty(Tail(parts))
         IN  IF Head(parts) = <<>> THEN rest
             ELSE IF rest = <<>> THEN Head(parts)
             ELSE Head(parts) \o <<Space>> \o rest

\* Array.prototype.find over the outcomes of its test on each item, as the
\* index of the first item that passes (0: undefined).
find(passes) ==
    IF \E k \in 1..Len(passes) : passes[k]
    THEN CHOOSE k \in 1..Len(passes) : passes[k] /\ \A j \in 1..(k - 1) : ~passes[j]
    ELSE 0

\* ----------------------------------------------------------- page elements
\* dataset.affUid of an element the script has not stamped.
Unstamped == 0

Option(text, value) == [text |-> text, value |-> value]

\* An input, textarea or select element. node is the element's identity;
\* attached tells whether it is in the document.
Element(tag, type, ariaLabel, name, autocomplete, options, value) ==
    [node |-> 0, tag |-> tag, type |-> type, ariaLabel |-> ariaLabel, name |-> name,
     id |-> <<>>, placeholder |-> <<>>,
     autocomplete |-> autocomplete, options |-> options, value |-> value,
     checked |-> FALSE, disabled |-> FALSE, readOnly |-> FALSE, visible |-> TRUE,
     required |-> FALSE, attached |-> TRUE, uid |-> Unstamped]

isVisible(el) == el.visible

SkippedInputTypes ==
    {"hidden", "submit", "button", "reset", "file", "image", "range", "color"}

shouldSkipInput(el) ==
    IF el.disabled \/ el.readOnly \/ ~isVisible(el) THEN TRUE
    ELSE IF el.tag = "input" THEN el.type \in SkippedInputTypes
    ELSE FALSE

\* The element's aria-label, the first source getLabelText consults; an
\* element without one has no label text.
getLabelText(el) == cleanText(el.ariaLabel)

\* --------------------------------------------------------- field safety
SENSITIVE_INPUT_TYPES == {"password"}

SENSITIVE_AUTOCOMPLETE_TOKENS ==
    {"current-password", "new-password", "one-time-code", "cc-name", "cc-number",
     "cc-exp", "cc-csc", "bday", "sex", "tel"}

\* Words in which SENSITIVE_PATTERN finds a match.
SENSITIVE_PATTERN == {"password", "passport", "token", "ssn", "cvv"}

NotSensitive == [sensitive |-> FALSE, reason |-> <<"", "">>]
Sensitive(rule, detail) == [sensitive |-> TRUE, reason |-> <<rule, detail>>]

getAutocompleteTokens(el) == splitWords(lowerCase(clean(el.autocomplete)))

\* Mutant: the placeholder is left out of the text the pattern is tried on.
getElementTextForSensitivity_WithoutPlaceholder(el, label) ==
    joinNonEmpty(<<clean(label), clean(el.name), clean(el.id), clean(el.ariaLabel)>>)

getElementTextForSensitivity(el, label) ==
    joinNonEmpty(<<clean(label), clean(el.name), clean(el.id), clean(el.placeholder),
                   clean(el.ariaLabel)>>)

patternTest(text) ==
    \E k \in 1..Len(text) : IsWord(text[k]) /\ text[k][2] \in SENSITIVE_PATTERN

isSensitiveFieldElement(el, label) ==
    LET autocompleteTokens == getAutocompleteTokens(el)
        matchedAutocomplete ==
            find([k \in 1..Len(autocompleteTokens) |->
                     /\ IsWord(autocompleteTokens[k])
                     /\ autocompleteTokens[k][2] \in SENSITIVE_AUTOCOMPLETE_TOKENS])
    IN  IF el.tag = "input" /\ el.type \in SENSITIVE_INPUT_TYPES
        THEN Sensitive("input type", el.type)
        ELSE IF matchedAutocomplete # 0
        THEN Sensitive("autocomplete", autocompleteTokens[matchedAutocomplete][2])
        ELSE IF patternTest(getElementTextForSensitivity(el, label))
        THEN Sensitive("field metadata matched sensitive pattern", "")
        ELSE NotSensitive

\* Mutant: the pattern is tried before the autocomplete tokens.
isSensitiveFieldDescriptor_PatternBeforeAutocomplete(field) ==
    LET autocompleteTokens == splitWords(lowerCase(clean(field.autocomplete)))
        matchedAutocomplete ==
            find([k \in 1..Len(autocompleteTokens) |->
                     /\ IsWord(autocompleteTokens[k])
                     /\ autocompleteTokens[k][2] \in SENSITIVE_AUTOCOMPLETE_TOKENS])
    IN  IF field.tag = "input" /\ field.type \in SENSITIVE_INPUT_TYPES
        THEN Sensitive("input type", field.type)
        ELSE IF patternTest(joinNonEmpty(<<clean(field.label), clean(field.name),
                                           clean(field.id), clean(field.placeholder),
                                           clean(field.ariaLabel)>>))
        THEN Sensitive("field metadata matched sensitive pattern", "")
        ELSE IF matchedAutocomplete # 0
        THEN Sensitive("autocomplete", autocompleteTokens[matchedAutocomplete][2])
        ELSE NotSensitive

\* The classifier of a field descriptor, as the background applies it.
isSensitiveFieldDescriptor(field) ==
    LET autocompleteTokens == splitWords(lowerCase(clean(field.autocomplete)))
        matchedAutocomplete ==
            find([k \in 1..Len(autocompleteTokens) |->
                     /\ IsWord(autocompleteTokens[k])
                     /\ autocompleteTokens[k][2] \in SENSITIVE_AUTOCOMPLETE_TOKENS])
    IN  IF field.tag = "input" /\ field.type \in SENSITIVE_INPUT_TYPES
        THEN Sensitive("input type", field.type)
        ELSE IF matchedAutocomplete # 0
        THEN Sensitive("autocomplete", autocompleteTokens[matchedAutocomplete][2])
        ELSE IF patternTest(joinNonEmpty(<<clean(field.label), clean(field.name),
                                           clean(field.id), clean(field.placeholder),
                                           clean(field.ariaLabel)>>))
        THEN Sensitive("field metadata matched sensitive pattern", "")
        ELSE NotSensitive

\* ------------------------------------------------------------ collection
EmptyMap == [u \in {} |-> 0]

\* Map.prototype.set.
mapSet(map, key, value) ==
    [u \in DOMAIN map \cup {key} |-> IF u = key THEN value ELSE map[u]]

\* Mutant: a uid is generated whether or not the element has one.
ensureFieldUid_AlwaysNew(el, counter) ==
    [el |-> [el EXCEPT !.uid = UidOf(counter + 1)], counter |-> counter + 1]

\* The element and the counter after ensureFieldUid(el).
ensureFieldUid(el, counter) ==
    IF el.uid = Unstamped
    THEN [el |-> [el EXCEPT !.uid = UidOf(counter + 1)], counter |-> counter + 1]
    ELSE [el |-> el, counter |-> counter]

\* The descriptor getFieldDescriptor builds for an element that has its uid.
getFieldDescriptor(el) ==
    LET label == getLabelText(el)
        sensitivity == isSensitiveFieldElement(el, label)
    IN  [uid             |-> el.uid,
         tag             |-> el.tag,
         type            |-> el.type,
         autocomplete    |-> cleanText(el.autocomplete),
         ariaLabel       |-> cleanText(el.ariaLabel),
         name            |-> cleanText(el.name),
         id              |-> cleanText(el.id),
         placeholder     |-> cleanText(el.placeholder),
         label           |-> label,
         required        |-> el.required,
         sensitive       |-> sensitivity.sensitive,
         sensitiveReason |-> sensitivity.reason,
         options         |->
            IF el.tag = "select"
            THEN SelectSeq([k \in 1..Len(el.options) |->
                               cleanText(IF el.options[k].text # <<>>
                                         THEN el.options[k].text
                                         ELSE el.options[k].value)],
                           LAMBDA text : text # <<>>)
            ELSE <<>>]

\* collectFields over the elements from position k on: every element of the
\* document that is not skipped gets its uid, its descriptor and its entry
\* in the new fieldMap.
RECURSIVE collectFrom(_, _, _, _, _)
collectFrom(d, counter, map, descriptors, k) ==
    IF k > Len(d)
    THEN [dom |-> d, uidCounter |-> counter, fieldMap |-> map, descriptors |-> descriptors]
    ELSE IF ~d[k].attached \/ shouldSkipInput(d[k])
    THEN collectFrom(d, counter, map, descriptors, k + 1)
    ELSE LET stamped == ensureFieldUid(d[k], counter)
         IN  collectFrom([d EXCEPT ![k] = stamped.el], stamped.counter,
                         mapSet(map, stamped.el.uid, stamped.el.node),
                         Append(descriptors, getFieldDescriptor(stamped.el)), k + 1)

\* Mutant: the includeSensitive flag is ignored, every descriptor is returned.
collectFields_ReturnsAll(d, counter, includeSensitive) ==
    LET all == collectFrom(d, counter, EmptyMap, <<>>, 1)
    IN  [dom |-> all.dom, uidCounter |-> all.uidCounter, fieldMap |-> all.fieldMap,
         fields |-> all.descriptors]

collectFields(d, counter, includeSensitive) ==
    LET all == collectFrom(d, counter, EmptyMap, <<>>, 1)
    IN  [dom |-> all.dom, uidCounter |-> all.uidCounter, fieldMap |-> all.fieldMap,
         fields |-> IF includeSensitive THEN all.descriptors
                    ELSE SelectSeq(all.descriptors, LAMBDA field : ~field.sensitive)]

hasFillableForms(d, counter) == Len(collectFields(d, counter, FALSE).fields) > 0

\* --------------------------------------------------------------- filling
NodeIndex(d, node) == CHOOSE k \in 1..Len(d) : d[k].node = node

\* One assignment to a property of an element, and one dispatched event.
ValueWrite(node, value) == [node |-> node, prop |-> "value", value |-> value, checked |-> FALSE]
CheckedWrite(node, checked) == [node |-> node, prop |-> "checked", value |-> <<>>, checked |-> checked]
Event(node, type) == [node |-> node, type |-> type]

Failure(error) == [ok |-> FALSE, error |-> error, writes |-> <<>>, events |-> <<>>]
Success(writes, events) == [ok |-> TRUE, error |-> "", writes |-> writes, events |-> events]

\* cleanText(opt.textContent || opt.value).toLowerCase()
candidateOf(opt) == lowerCase(cleanText(IF opt.text # <<>> THEN opt.text ELSE opt.value))

exactOption(el, normalized) ==
    find([k \in 1..Len(el.options) |->
            \/ candidateOf(el.options[k]) = normalized
            \/ lowerCase(cleanText(el.options[k].value)) = normalized])

partialOption(el, normalized) ==
    IF exactOption(el, normalized) # 0 THEN exactOption(el, normalized)
    ELSE find([k \in 1..Len(el.options) |->
                \/ includes(candidateOf(el.options[k]), normalized)
                \/ includes(normalized, candidateOf(el.options[k]))])

\* Mutant: the first option that matches in any way is taken, exact or not.
fillSelect_FirstMatchOfAnyKind(el, trimmedValue) ==
    LET normalized == lowerCase(trimmedValue)
        option == find([k \in 1..Len(el.options) |->
                        \/ candidateOf(el.options[k]) = normalized
                        \/ lowerCase(cleanText(el.options[k].value)) = normalized
                        \/ includes(candidateOf(el.options[k]), normalized)
                        \/ includes(normalized, candidateOf(el.options[k]))])
    IN  IF option = 0 THEN Failure("No matching option found for select field.")
        ELSE Success(<<ValueWrite(el.node, el.options[option].value)>>,
                     <<Event(el.node, "change")>>)

fillSelect(el, trimmedValue) ==
    LET option == partialOption(el, lowerCase(trimmedValue))
    IN  IF option = 0 THEN Failure("No matching option found for select field.")
        ELSE Success(<<ValueWrite(el.node, el.options[option].value)>>,
                     <<Event(el.node, "change")>>)

TruthyTokens == {"true", "yes", "1", "checked"}
FalsyTokens == {"false", "no", "0", "unchecked"}

\* /^(true|yes|1|checked)$/i and /^(false|no|0|unchecked)$/i
truthy(trimmedValue) ==
    Len(trimmedValue) = 1 /\ IsWord(trimmedValue[1]) /\ trimmedValue[1][2] \in TruthyTokens
falsy(trimmedValue) ==
    Len(trimmedValue) = 1 /\ IsWord(trimmedValue[1]) /\ trimmedValue[1][2] \in FalsyTokens

\* Mutant: every value that is not a falsy token checks the box.
fillCheckbox_AnythingElseChecks(el, trimmedValue) ==
    Success(<<CheckedWrite(el.node, ~falsy(trimmedValue))>>, <<Event(el.node, "change")>>)

fillCheckbox(el, trimmedValue) ==
    IF ~truthy(trimmedValue) /\ ~falsy(trimmedValue)
    THEN Failure("Checkbox value must resolve to true/false.")
    ELSE Success(<<CheckedWrite(el.node, truthy(trimmedValue))>>, <<Event(el.node, "change")>>)

\* document.querySelectorAll('input[type="radio"][name="..."]')
radiosNamed(d, radioName) ==
    SelectSeq(d, LAMBDA r : r.attached /\ r.tag = "input" /\ r.type = "radio"
                            /\ r.name = radioName)

fillRadio(d, el, trimmedValue) ==
    IF el.name = <<>> THEN Failure("Radio button has no name group.")
    ELSE LET radios == radiosNamed(d, el.name)
             normalizedValue == lowerCase(trimmedValue)
             match == find([k \in 1..Len(radios) |->
                        \/ lowerCase(getLabelText(radios[k])) = normalizedValue
                        \/ lowerCase(cleanText(radios[k].value)) = normalizedValue
                        \/ includes(lowerCase(getLabelText(radios[k])), normalizedValue)])
         IN  IF match = 0 THEN Failure("No matching radio option found.")
             ELSE Success(<<CheckedWrite(radios[match].node, TRUE)>>,
                          <<Event(radios[match].node, "change")>>)

\* Mutant: the value is assigned through the prototype's setter and directly.
setNativeValue_SetsTwice(el, value) ==
    Success(<<ValueWrite(el.node, value), ValueWrite(el.node, value)>>,
            <<Event(el.node, "input"), Event(el.node, "change")>>)

setNativeValue(el, value) ==
    Success(<<ValueWrite(el.node, value)>>,
            <<Event(el.node, "input"), Event(el.node, "change")>>)

fillField(d, map, uid, value, allowSensitive) ==
    IF uid \notin DOMAIN map THEN Failure("Field not found in page context.")
    ELSE LET el == d[NodeIndex(d, map[uid])]
             sensitivity == isSensitiveFieldElement(el, getLabelText(el))
             trimmedValue == cleanText(value)
         IN  IF sensitivity.sensitive /\ ~allowSensitive
             THEN Failure("Refusing to fill sensitive field without explicit confirmation.")
             ELSE IF trimmedValue = <<>> THEN Failure("Empty value was provided.")
             ELSE IF el.tag = "select" THEN fillSelect(el, trimmedValue)
             ELSE IF el.tag = "input" /\ el.type = "checkbox" THEN fillCheckbox(el, trimmedValue)
             ELSE IF el.tag = "input" /\ el.type = "radio" THEN fillRadio(d, el, trimmedValue)
             ELSE setNativeValue(el, trimmedValue)

\* The document after one property assignment. Checking a radio button
\* unchecks the other buttons of its group; a select takes a value only if
\* one of its options carries it.
sameRadioGroup(a, b) ==
    /\ a.tag = "input" /\ a.type = "radio"
    /\ b.tag = "input" /\ b.type = "radio"
    /\ a.name # <<>> /\ a.name = b.name
    /\ a.attached = b.attached

applyWrite(d, write) ==
    LET target == d[NodeIndex(d, write.node)]
    IN  [k \in 1..Len(d) |->
            IF d[k].node = write.node
            THEN IF write.prop = "checked" THEN [d[k] EXCEPT !.checked = write.checked]
                 ELSE IF d[k].tag = "select"
                 THEN [d[k] EXCEPT !.value =
                          IF \E o \in 1..Len(d[k].options) : d[k].options[o].value = write.value
                          THEN write.value ELSE <<>>]
                 ELSE [d[k] EXCEPT !.value = write.value]
            ELSE IF write.prop = "checked" /\ write.checked /\ sameRadioGroup(d[k], target)
            THEN [d[k] EXCEPT !.checked = FALSE]
            ELSE d[k]]

RECURSIVE applyWrites(_, _)
applyWrites(d, writes) ==
    IF writes = <<>> THEN d ELSE applyWrites(applyWrite(d, Head(writes)), Tail(writes))

\* ------------------------------------------------------------- the pages
W(word) == <<ValueTok(word)>>
Cap(word) == <<UpperTok(word)>>

TextInput(label) == Element("input", "text", label, <<>>, <<>>, <<>>, <<>>)
Radio(label, name, value) == Element("input", "radio", label, name, <<>>, <<>>, value)
Select(label, options) == Element("select", "select-one", label, <<>>, <<>>, options, <<>>)

\* The elements pages are made of.
Catalog ==
    << TextInput(Cap("name")),
       Element("input", "password", Cap("password"), <<>>, W("current-password"), <<>>, <<>>),
       Element("textarea", "textarea", Cap("card") \o <<Space>> \o W("token"), <<>>,
               Cap("section-a") \o <<Space, Space>> \o Cap("cc-number"), <<>>, <<>>),
       Select(Cap("country"),
              <<Option(Cap("united") \o <<Space>> \o Cap("states"), W("us")),
                Option(Cap("canada") \o <<Space>> \o Cap("east"), W("ce")),
                Option(Cap("canada"), W("ca"))>>),
       Element("input", "checkbox", Cap("subscribe"), <<>>, <<>>, <<>>, W("on")),
       [Element("input", "checkbox", Cap("terms"), <<>>, <<>>, <<>>, W("on"))
           EXCEPT !.checked = TRUE],
       Radio(Cap("passport"), W("doc"), W("pp")),
       Radio(Cap("id") \o <<Space>> \o W("card"), W("doc"), W("idc")),
       Radio(Cap("id"), W("doc"), W("national")),
       Radio(Cap("other"), <<>>, W("other")),
       [TextInput(Cap("code")) EXCEPT !.placeholder = Cap("ssn"), !.visible = FALSE] >>

\* The pages: a run of at most MaxElements consecutive elements of the
\* catalog, each element with its own identity.
withNodes(d) == [k \in 1..Len(d) |-> [d[k] EXCEPT !.node = k]]

Pages ==
    {withNodes(SubSeq(Catalog, first, first + count - 1)) :
        <<first, count>> \in
            {<<f, c>> \in (1..Len(Catalog)) \X (0..MaxElements) : f + c - 1 <= Len(Catalog)}}

\* Values a FILL_FORM_FIELD message carries.
FillValues ==
    { <<>>, Cap("yes"), <<Space>> \o W("no") \o <<Space>>, W("maybe"),
      W("canada"), W("east"), W("passport"), W("id"), W("us") }

NoCollection ==
    [type |-> "none", includeSensitive |-> FALSE, fields |-> <<>>]

NoFilling ==
    [type |-> "none", uid |-> 0, value |-> <<>>, allowSensitive |-> FALSE,
     result |-> Failure(""), before |-> <<>>, mapBefore |-> EmptyMap]

\* The hover controls and the single-field request, at rest.
NoField == 0
NoDescriptor == [uid |-> Unstamped]
NoFillResult == [ok |-> FALSE, error |-> "", writes |-> <<>>, events |-> <<>>]
NoResponse == [ok |-> FALSE, found |-> FALSE, value |-> <<>>, error |-> <<"", 0>>]

\* The click handler before any click.
NoFlow ==
    [pc |-> "idle", descriptor |-> NoDescriptor, asked |-> FALSE,
     allowSensitive |-> FALSE, applied |-> FALSE, before |-> <<>>,
     result |-> NoFillResult, reports |-> 0]

\* No FILL_SINGLE_FIELD request.
NoRequest ==
    [st |-> "none", origin |-> "none", field |-> NoDescriptor, isObject |-> TRUE,
     allowSensitive |-> FALSE, attempt |-> 0, calls |-> 0, response |-> NoResponse]

\* The state of the hover controls and of the background's single-field
\* handler when the page has loaded.
HoverIdle ==
    /\ activeHoverField = NoField
    /\ hideTimer = FALSE
    /\ hoverStatus = <<>>
    /\ flow = NoFlow
    /\ request = NoRequest

\* The content script after it has loaded into a page: its last statement,
\* initFormAvailabilityTracking(), has run notifyFormAvailability(true).
PageLoaded(page) ==
    LET first == collectFields(page, 0, FALSE)
    IN  /\ dom = first.dom
        /\ fieldMap = first.fieldMap
        /\ uidCounter = first.uidCounter
        /\ lastKnownHasForm = (Len(first.fields) > 0)
        /\ availabilityTimer = FALSE
        /\ collected = NoCollection
        /\ filling = NoFilling

\* ------------------------------------------------------------------- Init
Start ==
    /\ settings \in {[apiKey |-> TRUE,  vectorStoreId |-> TRUE],
                     [apiKey |-> FALSE, vectorStoreId |-> TRUE],
                     [apiKey |-> TRUE,  vectorStoreId |-> FALSE]}
    /\ pageFields \in PageFieldLists
    /\ pc = "idle"
    /\ fieldsResponse = "none"
    /\ failedBatches = {}
    /\ fields = <<>>
    /\ batches = <<>>
    /\ queue = <<>>
    /\ workers = <<>>
    /\ answerByFingerprint = <<>>
    /\ errorByFingerprint = <<>>
    /\ calls = 0
    /\ failedAttempts = 0
    /\ attemptLog = <<>>
    /\ cursor = 0
    /\ filled = 0
    /\ skipped = 0
    /\ refused = 0
    /\ sent = <<>>
    /\ outbox = <<>>

DistinctFingerprints(fs) == {fieldFingerprint(fs[k]) : k \in 1..Len(fs)}

\* Runs on any page; the attempts are not logged.
Init ==
    /\ Start
    /\ tracing = FALSE
    /\ PageLoaded(<<>>)
    /\ HoverIdle

\* Runs that log every attempt, on pages of a single batch.
InitTraced ==
    /\ Start
    /\ tracing = TRUE
    /\ Cardinality(DistinctFingerprints(pageFields)) <= AUTOFILL_BATCH_SIZE
    /\ PageLoaded(<<>>)
    /\ HoverIdle

\* ---------------------------------------------------------------- actions
\* Mutant: only the API key is checked before the page is asked for its fields.
StartAutofill_StoreIdUnchecked ==
    /\ pc = "idle"
    /\ IF settings.apiKey
       THEN /\ pc' = "collecting"
            /\ UNCHANGED outbox
       ELSE /\ pc' = "done"
            /\ outbox' = Append(outbox, StatusMsg("errApiKeyMissingPopup", TRUE))
    /\ UNCHANGED <<pageVars, hoverVars, tracing, fieldsResponse, failedBatches, settings, pageFields, fields, batches, queue, workers,
                   answerByFingerprint, errorByFingerprint, calls, failedAttempts,
                   attemptLog, cursor, filled, skipped, refused, sent>>

\* START_AUTOFILL: processAutofill reads the settings; a missing key or store
\* id throws, and the handler's catch reports it.
StartAutofill ==
    /\ pc = "idle"
    /\ IF settings.apiKey /\ settings.vectorStoreId
       THEN /\ pc' = "collecting"
            /\ UNCHANGED outbox
       ELSE /\ pc' = "done"
            /\ outbox' = Append(outbox,
                 StatusMsg(IF settings.apiKey THEN "errVectorStoreMissingPopup"
                           ELSE "errApiKeyMissingPopup", TRUE))
    /\ UNCHANGED <<pageVars, hoverVars, tracing, fieldsResponse, failedBatches, settings, pageFields, fields, batches, queue, workers,
                   answerByFingerprint, errorByFingerprint, calls, failedAttempts,
                   attemptLog, cursor, filled, skipped, refused, sent>>

\* The GET_FORM_FIELDS message fails (tabMessage rejects, or no ok response).
CollectRejected ==
    /\ pc = "collecting"
    /\ pc' = "done"
    /\ outbox' = Append(outbox, StatusMsg("errUnableToReadFields", TRUE))
    /\ fieldsResponse' = "failed"
    /\ UNCHANGED <<pageVars, hoverVars, tracing, failedBatches, settings, pageFields, fields, batches, queue, workers,
                   answerByFingerprint, errorByFingerprint, calls, failedAttempts,
                   attemptLog, cursor, filled, skipped, refused, sent>>

\* Mutant: an empty page is reported as an error.
CollectEmpty_ReportsError ==
    /\ pc = "collecting"
    /\ pageFields = <<>>
    /\ fields' = pageFields
    /\ pc' = "done"
    /\ outbox' = Append(outbox, StatusMsg("statusNoEditableFields", TRUE))
    /\ fieldsResponse' = "ok"
    /\ UNCHANGED <<pageVars, hoverVars, tracing, failedBatches, settings, pageFields, batches, queue, workers,
                   answerByFingerprint, errorByFingerprint, calls, failedAttempts,
                   attemptLog, cursor, filled, skipped, refused, sent>>

\* The page answers GET_FORM_FIELDS with no field.
CollectEmpty ==
    /\ pc = "collecting"
    /\ pageFields = <<>>
    /\ fields' = pageFields
    /\ pc' = "done"
    /\ outbox' = Append(outbox, StatusMsg("statusNoEditableFields", FALSE))
    /\ fieldsResponse' = "ok"
    /\ UNCHANGED <<pageVars, hoverVars, tracing, failedBatches, settings, pageFields, batches, queue, workers,
                   answerByFingerprint, errorByFingerprint, calls, failedAttempts,
                   attemptLog, cursor, filled, skipped, refused, sent>>

\* The page answers GET_FORM_FIELDS with fields: deduplicate, batch, and start
\* the pool.
CollectFields ==
    /\ pc = "collecting"
    /\ pageFields # <<>>
    /\ LET bs == chunkArray(uniqueFields(pageFields), AUTOFILL_BATCH_SIZE)
           n  == poolSize(bs, AUTOFILL_MAX_CONCURRENCY)
       IN  /\ fields' = pageFields
           /\ batches' = bs
           /\ workers' = [w \in 1..n |-> Running(w, 1, NoError)]
           /\ queue' = [k \in 1..(Len(bs) - n) |-> n + k]
           /\ calls' = n
    /\ pc' = "retrieving"
    /\ outbox' = Append(outbox, StatusMsg("statusFoundFieldsFilling", FALSE))
    /\ fieldsResponse' = "ok"
    /\ attemptLog' = [b \in 1..Len(chunkArray(uniqueFields(pageFields), AUTOFILL_BATCH_SIZE)) |-> <<>>]
    /\ UNCHANGED <<pageVars, hoverVars, tracing, failedBatches, settings, pageFields, answerByFingerprint, errorByFingerprint,
                   failedAttempts, cursor, filled, skipped, refused, sent>>

\* The catch block of withRetry for worker w's attempt failing with error:
\* rethrow (the worker's catch records the error for the batch's fingerprints)
\* or sleep before the next attempt.
AttemptFails(w, error, jitter) ==
    /\ pc = "retrieving"
    /\ w \in DOMAIN workers
    /\ workers[w].st = "inflight"
    /\ failedAttempts < MaxFailedAttempts
    /\ failedAttempts' = failedAttempts + 1
    /\ attemptLog' = logged(workers[w].b, error)
    /\ IF workers[w].attempt >= AUTOFILL_RETRIES \/ ~shouldRetry(error)
       THEN /\ errorByFingerprint' =
                  recordErrors(errorByFingerprint, batches[workers[w].b], error)
            /\ failedBatches' = failedBatches \cup {workers[w].b}
            /\ WorkerContinues(w)
       ELSE /\ workers' = [workers EXCEPT ![w] =
                  Sleeping(workers[w].b, workers[w].attempt, error,
                           backoffDelay(workers[w].attempt, jitter))]
            /\ UNCHANGED <<errorByFingerprint, failedBatches, queue, calls>>
    /\ UNCHANGED <<pageVars, hoverVars, tracing, fieldsResponse, settings, pageFields, pc, fields, batches, answerByFingerprint,
                   cursor, filled, skipped, refused, sent, outbox>>

\* A response with a failure status: createHttpError.
RespondHttpError(w) ==
    \E status \in HttpErrorStatuses, jitter \in JitterSamples :
        AttemptFails(w, createHttpError(status), jitter)

\* The 35 s abort timer fires first.
RequestTimeout(w) ==
    \E jitter \in JitterSamples : AttemptFails(w, timeoutError, jitter)

\* fetch itself rejects.
RequestNetworkError(w) ==
    \E jitter \in JitterSamples : AttemptFails(w, networkError, jitter)

\* A 200 response whose output text fails the check of the parsed value.
RespondInvalidOutput(w) ==
    \E text \in ModelOutputs, jitter \in JitterSamples :
        /\ isInvalidModelOutput(extractJsonObject(text))
        /\ AttemptFails(w, invalidModelOutputError, jitter)

\* Mutant: the result of an attempt made after a retry is dropped, the batch
\* records empty answers.
RespondOk_LosesRetriedResult(w) ==
    /\ pc = "retrieving"
    /\ w \in DOMAIN workers
    /\ workers[w].st = "inflight"
    /\ \E text \in ModelOutputs :
          LET batch == batches[workers[w].b]
              style == text.style
          IN  /\ ~isInvalidModelOutput(extractJsonObject(text))
              /\ answerByFingerprint' =
                    recordAnswers(answerByFingerprint, batch,
                                  IF workers[w].attempt > 1
                                  THEN answersByUid(<<>>, batch)
                                  ELSE answersByUid(ModelReply(style, batch), batch))
              /\ attemptLog' = logged(workers[w].b, okResponse(style))
    /\ WorkerContinues(w)
    /\ UNCHANGED <<pageVars, hoverVars, tracing, fieldsResponse, failedBatches, settings, pageFields, pc, fields, batches, errorByFingerprint,
                   failedAttempts, cursor, filled, skipped, refused, sent, outbox>>

\* A 200 response whose output text passes the check of the parsed value: the
\* batch's answers are recorded.
RespondOk(w) ==
    /\ pc = "retrieving"
    /\ w \in DOMAIN workers
    /\ workers[w].st = "inflight"
    /\ \E text \in ModelOutputs :
          LET batch == batches[workers[w].b]
              style == text.style
          IN  /\ ~isInvalidModelOutput(extractJsonObject(text))
              /\ answerByFingerprint' =
                    recordAnswers(answerByFingerprint, batch,
                                  answersByUid(ModelReply(style, batch), batch))
              /\ attemptLog' = logged(workers[w].b, okResponse(style))
    /\ WorkerContinues(w)
    /\ UNCHANGED <<pageVars, hoverVars, tracing, fieldsResponse, failedBatches, settings, pageFields, pc, fields, batches, errorByFingerprint,
                   failedAttempts, cursor, filled, skipped, refused, sent, outbox>>

\* The backoff timer of withRetry fires: the next attempt is sent.
BackoffElapsed(w) ==
    /\ pc = "retrieving"
    /\ w \in DOMAIN workers
    /\ workers[w].st = "sleeping"
    /\ workers' = [workers EXCEPT ![w] =
          Running(workers[w].b, workers[w].attempt + 1, workers[w].lastError)]
    /\ calls' = calls + 1
    /\ UNCHANGED <<pageVars, hoverVars, tracing, fieldsResponse, failedBatches, settings, pageFields, pc, fields, batches, queue,
                   answerByFingerprint, errorByFingerprint, failedAttempts,
                   attemptLog, cursor, filled, skipped, refused, sent, outbox>>

\* Promise.all(workers) resolves: the apply loop starts.
PoolResolved ==
    /\ pc = "retrieving"
    /\ \A w \in DOMAIN workers : workers[w].st = "done"
    /\ pc' = "applying"
    /\ cursor' = 1
    /\ filled' = 0
    /\ skipped' = 0
    /\ UNCHANGED <<pageVars, hoverVars, tracing, fieldsResponse, failedBatches, settings, pageFields, fields, batches, queue, workers,
                   answerByFingerprint, errorByFingerprint, calls, failedAttempts,
                   attemptLog, refused, sent, outbox>>

CurrentKey == fieldFingerprint(fields[cursor])

\* answerByFingerprint.get(key) || ""
answerFor(key) ==
    IF key \in DOMAIN answerByFingerprint THEN answerByFingerprint[key] ELSE EmptyAnswer

InApplyLoop == pc = "applying" /\ cursor <= Len(fields)

\* The field's fingerprint recorded an error.
ReportFieldError ==
    /\ InApplyLoop
    /\ CurrentKey \in DOMAIN errorByFingerprint
    /\ outbox' = Append(outbox, ProgressMsg("progressError", cursor, Len(fields),
                                            errorByFingerprint[CurrentKey]))
    /\ skipped' = skipped + 1
    /\ cursor' = cursor + 1
    /\ UNCHANGED <<pageVars, hoverVars, tracing, fieldsResponse, failedBatches, settings, pageFields, pc, fields, batches, queue, workers,
                   answerByFingerprint, errorByFingerprint, calls, failedAttempts,
                   attemptLog, filled, refused, sent>>

\* The field's fingerprint has no answer.
ReportNotFound ==
    /\ InApplyLoop
    /\ CurrentKey \notin DOMAIN errorByFingerprint
    /\ answerFor(CurrentKey) = EmptyAnswer
    /\ outbox' = Append(outbox, ProgressMsg("progressNotFound", cursor, Len(fields),
                                            <<"", 0>>))
    /\ skipped' = skipped + 1
    /\ cursor' = cursor + 1
    /\ UNCHANGED <<pageVars, hoverVars, tracing, fieldsResponse, failedBatches, settings, pageFields, pc, fields, batches, queue, workers,
                   answerByFingerprint, errorByFingerprint, calls, failedAttempts,
                   attemptLog, filled, refused, sent>>

CanFill ==
    /\ InApplyLoop
    /\ CurrentKey \notin DOMAIN errorByFingerprint
    /\ answerFor(CurrentKey) # EmptyAnswer

\* Mutant: a fill the page answered ok is counted as skipped.
FillFieldOk_CountedSkipped ==
    /\ CanFill
    /\ sent' = Append(sent, FillMsg(fields[cursor].uid, answerFor(CurrentKey)))
    /\ skipped' = skipped + 1
    /\ outbox' = Append(outbox, ProgressMsg("progressFilled", cursor, Len(fields),
                                            <<"", 0>>))
    /\ cursor' = cursor + 1
    /\ UNCHANGED <<pageVars, hoverVars, tracing, fieldsResponse, failedBatches, settings, pageFields, pc, fields, batches, queue, workers,
                   answerByFingerprint, errorByFingerprint, calls, failedAttempts,
                   attemptLog, filled, refused>>

\* FILL_FORM_FIELD is sent and the page answers ok.
FillFieldOk ==
    /\ CanFill
    /\ sent' = Append(sent, FillMsg(fields[cursor].uid, answerFor(CurrentKey)))
    /\ filled' = filled + 1
    /\ outbox' = Append(outbox, ProgressMsg("progressFilled", cursor, Len(fields),
                                            <<"", 0>>))
    /\ cursor' = cursor + 1
    /\ UNCHANGED <<pageVars, hoverVars, tracing, fieldsResponse, failedBatches, settings, pageFields, pc, fields, batches, queue, workers,
                   answerByFingerprint, errorByFingerprint, calls, failedAttempts,
                   attemptLog, skipped, refused>>

\* FILL_FORM_FIELD is sent and the page answers ok = false.
FillFieldRefused ==
    /\ CanFill
    /\ refused < MaxRefused
    /\ refused' = refused + 1
    /\ sent' = Append(sent, FillMsg(fields[cursor].uid, answerFor(CurrentKey)))
    /\ skipped' = skipped + 1
    /\ outbox' = Append(outbox, ProgressMsg("progressCouldNotFill", cursor, Len(fields),
                                            <<"fillResponse.error", 0>>))
    /\ cursor' = cursor + 1
    /\ UNCHANGED <<pageVars, hoverVars, tracing, fieldsResponse, failedBatches, settings, pageFields, pc, fields, batches, queue, workers,
                   answerByFingerprint, errorByFingerprint, calls, failedAttempts,
                   attemptLog, filled>>

\* Mutant: the rejection ends the run without a report, as if the
\* START_AUTOFILL handler had no catch.
FillFieldRejected_Unreported ==
    /\ CanFill
    /\ sent' = Append(sent, FillMsg(fields[cursor].uid, answerFor(CurrentKey)))
    /\ pc' = "done"
    /\ UNCHANGED <<pageVars, hoverVars, tracing, fieldsResponse, failedBatches, settings, pageFields, fields, batches, queue, workers,
                   answerByFingerprint, errorByFingerprint, calls, failedAttempts,
                   attemptLog, cursor, filled, skipped, refused, outbox>>

\* tabMessage rejects for FILL_FORM_FIELD (the tab is gone, the script cannot be
\* injected, the port closed): processAutofill rejects and the START_AUTOFILL
\* handler's catch reports the error.
FillFieldRejected ==
    /\ CanFill
    /\ sent' = Append(sent, FillMsg(fields[cursor].uid, answerFor(CurrentKey)))
    /\ outbox' = Append(outbox, StatusMsg("chrome.runtime.lastError", TRUE))
    /\ pc' = "done"
    /\ UNCHANGED <<pageVars, hoverVars, tracing, fieldsResponse, failedBatches, settings, pageFields, fields, batches, queue, workers,
                   answerByFingerprint, errorByFingerprint, calls, failedAttempts,
                   attemptLog, cursor, filled, skipped, refused>>

\* The loop is over: the final summary.
Complete ==
    /\ pc = "applying"
    /\ cursor > Len(fields)
    /\ outbox' = Append(outbox, CompletedMsg(filled, skipped))
    /\ pc' = "done"
    /\ UNCHANGED <<pageVars, hoverVars, tracing, fieldsResponse, failedBatches, settings, pageFields, fields, batches, queue, workers,
                   answerByFingerprint, errorByFingerprint, calls, failedAttempts,
                   attemptLog, cursor, filled, skipped, refused, sent>>

\* ------------------------------------------------- content script actions
\* A behaviour of the content script is followed up to the end of the first
\* GET_FORM_FIELDS or FILL_FORM_FIELD exchange in it. What GET_FORM_FIELDS
\* does to the script's state, HAS_FILLABLE_FORMS does too, so the states in
\* which messages arrive are all there.
Open == filling.type = "none" /\ collected.type = "none"

\* onMessage, GET_FORM_FIELDS: collectFields(Boolean(message.includeSensitive)).
OnGetFormFields(includeSensitive) ==
    /\ Open
    /\ LET result == collectFields(dom, uidCounter, includeSensitive)
       IN  /\ dom' = result.dom
           /\ fieldMap' = result.fieldMap
           /\ uidCounter' = result.uidCounter
           /\ collected' = [type |-> "GET_FORM_FIELDS",
                            includeSensitive |-> includeSensitive,
                            fields |-> result.fields]
    /\ UNCHANGED <<lastKnownHasForm, availabilityTimer, filling, bulkVars, hoverVars>>

\* onMessage, HAS_FILLABLE_FORMS: hasFillableForms() collects the fields anew.
OnHasFillableForms ==
    /\ Open
    /\ LET result == collectFields(dom, uidCounter, FALSE)
       IN  /\ dom' = result.dom
           /\ fieldMap' = result.fieldMap
           /\ uidCounter' = result.uidCounter
    /\ UNCHANGED <<collected, lastKnownHasForm, availabilityTimer, filling, bulkVars, hoverVars>>

\* The timer of scheduleAvailabilityCheck fires: notifyFormAvailability(false).
AvailabilityCheck ==
    /\ Open
    /\ availabilityTimer
    /\ LET result == collectFields(dom, uidCounter, FALSE)
       IN  /\ dom' = result.dom
           /\ fieldMap' = result.fieldMap
           /\ uidCounter' = result.uidCounter
           /\ lastKnownHasForm' = hasFillableForms(dom, uidCounter)
    /\ availabilityTimer' = FALSE
    /\ UNCHANGED <<collected, filling, bulkVars, hoverVars>>

\* Uids and values a FILL_FORM_FIELD message can carry: a uid that was handed
\* out with any of the values, and a uid that no element carries.
MessageUids == {UidOf(k) : k \in 1..(uidCounter + 1)}
MessageValues(uid) == IF uid = UidOf(uidCounter + 1) THEN {W("maybe")} ELSE FillValues

\* onMessage, FILL_FORM_FIELD: fillField(uid, value, Boolean(allowSensitive)).
OnFillFormField(message) ==
    /\ Open
    /\ LET result == fillField(dom, fieldMap, message.uid, message.value,
                               message.allowSensitive)
       IN  /\ dom' = applyWrites(dom, result.writes)
           /\ filling' = [type |-> "FILL_FORM_FIELD", uid |-> message.uid,
                          value |-> message.value,
                          allowSensitive |-> message.allowSensitive,
                          result |-> result, before |-> dom, mapBefore |-> fieldMap]
    /\ UNCHANGED <<collected, fieldMap, uidCounter, lastKnownHasForm, availabilityTimer, bulkVars, hoverVars>>

\* The bulk run's message, and a fill with allowSensitive = true, as the hover
\* button makes for a field the user has confirmed as sensitive.
BulkFill(uid, value) == OnFillFormField(FillMsg(uid, value))
ConfirmedFill(uid, value) ==
    /\ uid \in DOMAIN fieldMap
    /\ LET el == dom[NodeIndex(dom, fieldMap[uid])]
       IN  isSensitiveFieldElement(el, getLabelText(el)).sensitive
    /\ OnFillFormField([FillMsg(uid, value) EXCEPT !.allowSensitive = TRUE])

\* ----------------------------------------------------------- page actions
\* The page removes an element from the document (for the element, being
\* replaced by a new one is the same); the MutationObserver (childList)
\* schedules the availability check.
PageRemoves(node) ==
    /\ Open
    /\ dom[NodeIndex(dom, node)].attached
    /\ dom' = [dom EXCEPT ![NodeIndex(dom, node)].attached = FALSE]
    /\ availabilityTimer' = TRUE
    /\ UNCHANGED <<collected, fieldMap, uidCounter, lastKnownHasForm, filling, bulkVars, hoverVars>>

\* The page shows an element it had hidden; the MutationObserver (attributes
\* style, class) schedules the availability check.
PageReveals(node) ==
    /\ Open
    /\ dom[NodeIndex(dom, node)].attached
    /\ ~dom[NodeIndex(dom, node)].visible
    /\ dom' = [dom EXCEPT ![NodeIndex(dom, node)].visible = TRUE]
    /\ availabilityTimer' = TRUE
    /\ UNCHANGED <<collected, fieldMap, uidCounter, lastKnownHasForm, filling, bulkVars, hoverVars>>

\* The page inserts a copy of an element after it (cloneNode copies the
\* attributes, data-aff-uid among them), while it holds fewer than
\* MaxElements elements; the MutationObserver (childList) schedules the
\* availability check.
PageClones(node) ==
    /\ Open
    /\ Len(dom) < MaxElements
    /\ dom[NodeIndex(dom, node)].attached
    /\ LET k == NodeIndex(dom, node)
       IN  dom' = SubSeq(dom, 1, k) \o <<[dom[k] EXCEPT !.node = Len(dom) + 1]>>
                    \o SubSeq(dom, k + 1, Len(dom))
    /\ availabilityTimer' = TRUE
    /\ UNCHANGED <<collected, fieldMap, uidCounter, lastKnownHasForm, filling, bulkVars, hoverVars>>

\* The page turns a text input into a password input; the MutationObserver
\* (attribute type) schedules the availability check.
PageRetypes(node) ==
    /\ Open
    /\ dom[NodeIndex(dom, node)].attached
    /\ dom[NodeIndex(dom, node)].tag = "input"
    /\ dom[NodeIndex(dom, node)].type = "text"
    /\ dom' = [dom EXCEPT ![NodeIndex(dom, node)].type = "password"]
    /\ availabilityTimer' = TRUE
    /\ UNCHANGED <<collected, fieldMap, uidCounter, lastKnownHasForm, filling, bulkVars, hoverVars>>

\* ------------------------------------------------------ the hover button
\* showFieldStatus(message, isError): nothing is displayed when there is no
\* active hover field.
showFieldStatus(status, active, message, isError) ==
    IF active = NoField THEN status
    ELSE Append(status, [message |-> message, isError |-> isError])

\* handlePointerOver on a form element: the hide timer is cleared and
\* showHoverButtonFor(field) runs.
PointerOverField(node) ==
    /\ dom[NodeIndex(dom, node)].attached
    /\ hideTimer' = FALSE
    /\ activeHoverField' = IF shouldSkipInput(dom[NodeIndex(dom, node)]) THEN NoField
                           ELSE node
    /\ activeHoverField' # activeHoverField \/ hideTimer
    /\ UNCHANGED <<hoverStatus, flow, request, pageVars, bulkVars>>

\* handlePointerOver on the hover button: the hide timer is cleared.
PointerOverButton ==
    /\ activeHoverField # NoField
    /\ hideTimer
    /\ hideTimer' = FALSE
    /\ UNCHANGED <<activeHoverField, hoverStatus, flow, request, pageVars, bulkVars>>

\* handlePointerOut from a field to anything but the button, or mouseleave
\* of the button: scheduleHideHoverButton.
PointerLeaves ==
    /\ activeHoverField # NoField
    /\ ~hideTimer
    /\ hideTimer' = TRUE
    /\ UNCHANGED <<activeHoverField, hoverStatus, flow, request, pageVars, bulkVars>>

\* The hide timer fires: hideHoverButton.
HideTimerFires ==
    /\ hideTimer
    /\ hideTimer' = FALSE
    /\ activeHoverField' = NoField
    /\ UNCHANGED <<hoverStatus, flow, request, pageVars, bulkVars>>

\* The button can be clicked: it is displayed and not disabled, and the
\* pointer is on it, which has cleared the hide timer. One click is followed
\* in a behaviour.
CanClick ==
    /\ activeHoverField # NoField
    /\ ~hideTimer
    /\ flow.pc = "idle"
    /\ request.st = "none"

ActiveElement == dom[NodeIndex(dom, activeHoverField)]

\* An element that is no longer in the document has an empty bounding
\* rectangle, so isVisible is false for it.
unavailable(el) == ~el.attached \/ shouldSkipInput(el)

\* getFieldDescriptor(activeHoverField) in the click handler: the element
\* gets a uid if it has none, and fieldMap an entry.
Extracted ==
    LET stamped == ensureFieldUid(ActiveElement, uidCounter)
    IN  [el |-> stamped.el, counter |-> stamped.counter,
         descriptor |-> getFieldDescriptor(stamped.el)]

Extract ==
    /\ dom' = [dom EXCEPT ![NodeIndex(dom, activeHoverField)] = Extracted.el]
    /\ uidCounter' = Extracted.counter
    /\ fieldMap' = mapSet(fieldMap, Extracted.descriptor.uid, activeHoverField)

FillSingleField(field, allowSensitive) ==
    [st |-> "sent", origin |-> "hover", field |-> field, isObject |-> TRUE,
     allowSensitive |-> allowSensitive, attempt |-> 0, calls |-> 0,
     response |-> NoResponse]

\* click, the field having become unavailable.
ClickUnavailable ==
    /\ CanClick
    /\ unavailable(ActiveElement)
    /\ hoverStatus' = showFieldStatus(hoverStatus, activeHoverField,
                                      <<"contentFieldUnavailable", 0>>, TRUE)
    /\ activeHoverField' = NoField
    /\ flow' = [flow EXCEPT !.pc = "done"]
    /\ UNCHANGED <<hideTimer, request, pageVars, bulkVars>>

\* Mutant: a declined confirmation is taken as given.
ClickDeclined_SendsAnyway ==
    /\ CanClick
    /\ ~unavailable(ActiveElement)
    /\ Extracted.descriptor.sensitive
    /\ Extract
    /\ hoverStatus' = showFieldStatus(hoverStatus, activeHoverField,
                                      <<"contentSearchingDocs", 0>>, FALSE)
    /\ flow' = [flow EXCEPT !.pc = "awaiting", !.descriptor = Extracted.descriptor,
                            !.asked = TRUE, !.allowSensitive = FALSE]
    /\ request' = FillSingleField(Extracted.descriptor, FALSE)
    /\ UNCHANGED <<activeHoverField, hideTimer, lastKnownHasForm, availabilityTimer,
                   collected, filling, bulkVars>>

\* click on a field whose descriptor is sensitive, and the user declines the
\* confirmation.
ClickDeclined ==
    /\ CanClick
    /\ ~unavailable(ActiveElement)
    /\ Extracted.descriptor.sensitive
    /\ Extract
    /\ hoverStatus' = showFieldStatus(hoverStatus, activeHoverField,
                                      <<"contentSensitiveFillCancelled", 0>>, TRUE)
    /\ flow' = [flow EXCEPT !.pc = "done", !.descriptor = Extracted.descriptor,
                            !.asked = TRUE, !.allowSensitive = FALSE]
    /\ UNCHANGED <<activeHoverField, hideTimer, request, lastKnownHasForm,
                   availabilityTimer, collected, filling, bulkVars>>

\* click on a field whose descriptor is not sensitive, or is and the user
\* confirms: the button is disabled and FILL_SINGLE_FIELD is sent.
ClickSends ==
    /\ CanClick
    /\ ~unavailable(ActiveElement)
    /\ Extract
    /\ hoverStatus' = showFieldStatus(hoverStatus, activeHoverField,
                                      <<"contentSearchingDocs", 0>>, FALSE)
    /\ flow' = [flow EXCEPT !.pc = "awaiting", !.descriptor = Extracted.descriptor,
                            !.asked = Extracted.descriptor.sensitive,
                            !.allowSensitive = Extracted.descriptor.sensitive]
    /\ request' = FillSingleField(Extracted.descriptor, Extracted.descriptor.sensitive)
    /\ UNCHANGED <<activeHoverField, hideTimer, lastKnownHasForm, availabilityTimer,
                   collected, filling, bulkVars>>

\* Descriptors a FILL_SINGLE_FIELD message from another sender can carry.
DirectFields ==
    {getFieldDescriptor([Catalog[k] EXCEPT !.node = 1, !.uid = UidOf(1)]) : k \in {1, 2, 7}}

\* A FILL_SINGLE_FIELD message that does not come from the click handler:
\* the listener takes the message of any sender within the extension.
DirectRequest(field, isObject, allowSensitive) ==
    /\ flow.pc = "idle"
    /\ request.st = "none"
    /\ request' = [FillSingleField(field, allowSensitive) EXCEPT
                      !.origin = "direct", !.isObject = isObject]
    /\ UNCHANGED <<activeHoverField, hideTimer, hoverStatus, flow, pageVars, bulkVars>>

ErrorResponse(message) == [NoResponse EXCEPT !.error = message]

\* Mutant: the sensitivity of the descriptor is not looked at.
OnFillSingleField_Unchecked ==
    /\ request.st = "sent"
    /\ IF ~settings.apiKey
       THEN request' = [request EXCEPT !.st = "answered",
                           !.response = ErrorResponse(<<"errApiKeyMissingPopup", 0>>)]
       ELSE IF ~settings.vectorStoreId
       THEN request' = [request EXCEPT !.st = "answered",
                           !.response = ErrorResponse(<<"errVectorStoreMissingPopup", 0>>)]
       ELSE IF ~request.isObject
       THEN request' = [request EXCEPT !.st = "answered",
                           !.response = ErrorResponse(<<"errInvalidFieldPayload", 0>>)]
       ELSE request' = [request EXCEPT !.st = "inflight", !.attempt = 1, !.calls = 1]
    /\ UNCHANGED <<activeHoverField, hideTimer, hoverStatus, flow, pageVars, bulkVars>>

\* onMessage, FILL_SINGLE_FIELD: processSingleField up to its first request
\* to the retrieval service, or to the error the handler's catch answers.
OnFillSingleField ==
    /\ request.st = "sent"
    /\ IF ~settings.apiKey
       THEN request' = [request EXCEPT !.st = "answered",
                           !.response = ErrorResponse(<<"errApiKeyMissingPopup", 0>>)]
       ELSE IF ~settings.vectorStoreId
       THEN request' = [request EXCEPT !.st = "answered",
                           !.response = ErrorResponse(<<"errVectorStoreMissingPopup", 0>>)]
       ELSE IF ~request.isObject
       THEN request' = [request EXCEPT !.st = "answered",
                           !.response = ErrorResponse(<<"errInvalidFieldPayload", 0>>)]
       ELSE IF isSensitiveFieldDescriptor(request.field).sensitive /\ ~request.allowSensitive
       THEN request' = [request EXCEPT !.st = "answered",
                           !.response =
                               ErrorResponse(<<"errSensitiveFieldRequiresConfirmation", 0>>)]
       ELSE request' = [request EXCEPT !.st = "inflight", !.attempt = 1, !.calls = 1]
    /\ UNCHANGED <<activeHoverField, hideTimer, hoverStatus, flow, pageVars, bulkVars>>

\* Errors an attempt of queryFieldBatchAnswers ends with.
AttemptErrors ==
    {createHttpError(status) : status \in HttpErrorStatuses}
        \cup {timeoutError, networkError, invalidModelOutputError}

\* The catch block of withRetry in processSingleField: rethrow, and the
\* handler's catch answers the error, or sleep before the next attempt.
SingleAttemptFails(error) ==
    /\ request.st = "inflight"
    /\ IF request.attempt >= AUTOFILL_RETRIES \/ ~shouldRetry(error)
       THEN request' = [request EXCEPT !.st = "answered",
                           !.response = ErrorResponse(error.message)]
       ELSE request' = [request EXCEPT !.st = "sleeping"]
    /\ UNCHANGED <<activeHoverField, hideTimer, hoverStatus, flow, pageVars, bulkVars>>

\* The backoff timer of withRetry fires: the next attempt is sent.
SingleBackoffElapsed ==
    /\ request.st = "sleeping"
    /\ request' = [request EXCEPT !.st = "inflight", !.attempt = request.attempt + 1,
                                  !.calls = request.calls + 1]
    /\ UNCHANGED <<activeHoverField, hideTimer, hoverStatus, flow, pageVars, bulkVars>>

\* Answers the retrieval gives for the one field: none, or a value.
SingleAnswers == {<<>>, W("passport"), W("maybe")}

\* The attempt succeeds: answerByUid[field.uid] || "".
SingleAttemptSucceeds(answer) ==
    /\ request.st = "inflight"
    /\ request' = [request EXCEPT !.st = "answered",
                      !.response = [ok |-> TRUE, found |-> answer # <<>>,
                                    value |-> answer, error |-> <<"", 0>>]]
    /\ UNCHANGED <<activeHoverField, hideTimer, hoverStatus, flow, pageVars, bulkVars>>

\* The outcome the click handler reports.
Reported(message, isError) ==
    /\ hoverStatus' = showFieldStatus(hoverStatus, activeHoverField, message, isError)
    /\ flow' = [flow EXCEPT !.pc = "done", !.reports = flow.reports + 1]
    /\ UNCHANGED <<dom>>

\* The click handler after await runtimeSendMessage: the response has come.
OnSingleFieldResponse ==
    /\ flow.pc = "awaiting"
    /\ request.st = "answered"
    /\ request.origin = "hover"
    /\ LET response == request.response
           fillResult == fillField(dom, fieldMap, flow.descriptor.uid, response.value,
                                   flow.allowSensitive)
       IN  IF ~response.ok THEN Reported(response.error, TRUE)
           ELSE IF ~response.found \/ response.value = <<>>
           THEN Reported(<<"contentNoAnswerFound", 0>>, TRUE)
           ELSE /\ dom' = applyWrites(dom, fillResult.writes)
                /\ hoverStatus' =
                      IF fillResult.ok
                      THEN showFieldStatus(hoverStatus, activeHoverField,
                                           <<"contentFieldFilled", 0>>, FALSE)
                      ELSE showFieldStatus(hoverStatus, activeHoverField,
                                           <<fillResult.error, 0>>, TRUE)
                /\ flow' = [flow EXCEPT !.pc = "done", !.reports = flow.reports + 1,
                                        !.applied = TRUE, !.before = dom,
                                        !.result = fillResult]
    /\ request' = [request EXCEPT !.st = "received"]
    /\ UNCHANGED <<activeHoverField, hideTimer, fieldMap, uidCounter, lastKnownHasForm,
                   availabilityTimer, collected, filling, bulkVars>>

\* runtimeSendMessage rejects (chrome.runtime.lastError: the service worker
\* is gone): the click handler's catch reports the error.
SendRejected ==
    /\ flow.pc = "awaiting"
    /\ request.st = "sent"
    /\ request.origin = "hover"
    /\ request' = [request EXCEPT !.st = "lost"]
    /\ hoverStatus' = showFieldStatus(hoverStatus, activeHoverField,
                                      <<"chrome.runtime.lastError", 0>>, TRUE)
    /\ flow' = [flow EXCEPT !.pc = "done", !.reports = flow.reports + 1]
    /\ UNCHANGED <<activeHoverField, hideTimer, pageVars, bulkVars>>

Next ==
    \/ StartAutofill
    \/ CollectRejected
    \/ CollectEmpty
    \/ CollectFields
    \/ \E w \in DOMAIN workers : BackoffElapsed(w)
    \/ \E w \in DOMAIN workers : RequestTimeout(w)
    \/ \E w \in DOMAIN workers : RespondOk(w)
    \/ \E w \in DOMAIN workers : RespondHttpError(w)
    \/ \E w \in DOMAIN workers : RequestNetworkError(w)
    \/ \E w \in DOMAIN workers : RespondInvalidOutput(w)
    \/ PoolResolved
    \/ ReportFieldError
    \/ ReportNotFound
    \/ FillFieldOk
    \/ FillFieldRefused
    \/ FillFieldRejected
    \/ Complete

Spec == Init /\ [][Next]_vars

SpecTraced == InitTraced /\ [][Next]_vars

\* The bulk run when every request and every page message eventually returns
\* or fails, and every timer eventually fires: a step that can be taken is
\* eventually taken.
\* The runs followed to their end are those on a page without fields and on
\* pages whose distinct fields fill one batch and start a second.
InitFair ==
    /\ Init
    /\ Cardinality(DistinctFingerprints(pageFields)) \in {0, AUTOFILL_BATCH_SIZE + 1}

FairSpec == InitFair /\ [][Next]_vars /\ WF_vars(Next)

\* The content script in a loaded page, with no bulk run in progress.
InitPage ==
    /\ Start
    /\ tracing = FALSE
    /\ settings = [apiKey |-> TRUE, vectorStoreId |-> TRUE]
    /\ pageFields = <<>>
    /\ \E page \in Pages : PageLoaded(page)
    /\ HoverIdle

NextPage ==
    \/ \E includeSensitive \in BOOLEAN : OnGetFormFields(includeSensitive)
    \/ OnHasFillableForms
    \/ AvailabilityCheck
    \/ \E uid \in MessageUids : \E value \in MessageValues(uid) : BulkFill(uid, value)
    \/ \E uid \in MessageUids : \E value \in MessageValues(uid) : ConfirmedFill(uid, value)
    \/ \E k \in 1..Len(dom) : PageRemoves(dom[k].node)
    \/ \E k \in 1..Len(dom) : PageRetypes(dom[k].node)
    \/ \E k \in 1..Len(dom) : PageReveals(dom[k].node)
    \/ \E k \in 1..Len(dom) : PageClones(dom[k].node)

SpecPage == InitPage /\ [][NextPage]_vars

\* The hover button in a loaded page, and the background's single-field
\* handler, with no bulk run in progress.
InitHover ==
    /\ Start
    /\ tracing = FALSE
    /\ pageFields = <<>>
    /\ \E page \in Pages : PageLoaded(page)
    /\ HoverIdle

NextHover ==
    \/ \E k \in 1..Len(dom) : PointerOverField(dom[k].node)
    \/ PointerOverButton
    \/ PointerLeaves
    \/ HideTimerFires
    \/ ClickUnavailable
    \/ ClickDeclined
    \/ ClickSends
    \/ \E field \in DirectFields, isObject, allowSensitive \in BOOLEAN :
          DirectRequest(field, isObject, allowSensitive)
    \/ OnFillSingleField
    \/ \E error \in AttemptErrors : SingleAttemptFails(error)
    \/ SingleBackoffElapsed
    \/ \E answer \in SingleAnswers : SingleAttemptSucceeds(answer)
    \/ OnSingleFieldResponse
    \/ SendRejected
    \/ \E k \in 1..Len(dom) : PageRemoves(dom[k].node)
    \/ \E k \in 1..Len(dom) : PageRetypes(dom[k].node)

SpecHover == InitHover /\ [][NextHover]_vars

\* The scheduling of the single-field flow: a message that was sent is
\* handled or its send rejects, an attempt ends (the request's abort timer
\* sees to it), a backoff timer fires, and a response that has come resumes
\* the click handler. At most one of these steps is possible at a time, so
\* the one condition is fairness for each of them. Pointer events and page
\* changes may or may not happen.
FlowStep ==
    \/ OnFillSingleField
    \/ SendRejected
    \/ \E error \in AttemptErrors : SingleAttemptFails(error)
    \/ \E answer \in SingleAnswers : SingleAttemptSucceeds(answer)
    \/ SingleBackoffElapsed
    \/ OnSingleFieldResponse

FairHover == WF_vars(FlowStep)

\* The fair behaviours are followed on pages of one text or password
\* input, with the settings in place.
InitHoverFair ==
    /\ InitHover
    /\ Len(dom) = 1
    /\ dom[1].tag = "input"
    /\ dom[1].type \in {"text", "password"}
    /\ settings = [apiKey |-> TRUE, vectorStoreId |-> TRUE]

FairSpecHover == InitHoverFair /\ [][NextHover]_vars /\ FairHover

\* ================================================================== claims
CeilDiv(a, b) == (a + b - 1) \div b

NumDistinct == Cardinality(DistinctFingerprints(fields))

KeyOf(k) == fieldFingerprint(fields[k])

FieldIndexes == 1..Len(fields)

Last(s) == s[Len(s)]

\* The values of the FILL_FORM_FIELD messages sent to a uid.
SentValues(uid) == {sent[n].value : n \in {m \in 1..Len(sent) : sent[m].uid = uid}}

\* The apply loop has dealt with field k: it went past it, or it sent its fill.
Handled(k) ==
    /\ pc \in {"applying", "done"}
    /\ (k < cursor \/ SentValues(fields[k].uid) # {})

\* The progress reports emitted for field k.
ReportsOf(k) ==
    {n \in 1..Len(outbox) : outbox[n].type = "AUTOFILL_PROGRESS" /\ outbox[n].index = k}

SkipKinds == {"progressError", "progressNotFound", "progressCouldNotFill"}

IsCompleted ==
    /\ pc = "done"
    /\ outbox # <<>>
    /\ Last(outbox).kind = "statusCompletedFilledSkipped"

\* ------------------------------------------------------------------- C1
\* C1 as stated: the number of requests sent is at most ceil(D / B), D the
\* number of distinct fingerprints among the collected fields.
C1_CallsAtMostOnePerBatch ==
    calls <= CeilDiv(NumDistinct, AUTOFILL_BATCH_SIZE)

\* C1 amended: the deduplicated fields form exactly ceil(D / B) batches; each
\* batch is sent once and once more per retried failure, so the requests sent
\* are at most ceil(D / B) plus the failed attempts, and at most R * ceil(D / B).
C1_CallsAtMostRetriesPerBatch ==
    /\ Len(batches) = CeilDiv(NumDistinct, AUTOFILL_BATCH_SIZE)
    /\ calls <= CeilDiv(NumDistinct, AUTOFILL_BATCH_SIZE) + failedAttempts
    /\ calls <= AUTOFILL_RETRIES * CeilDiv(NumDistinct, AUTOFILL_BATCH_SIZE)
    /\ (IsCompleted => calls >= CeilDiv(NumDistinct, AUTOFILL_BATCH_SIZE))

\* A finished run on a page with repeated fields whose batch was sent R times.
C1_Witness ==
    /\ IsCompleted
    /\ Len(fields) > NumDistinct
    /\ calls = AUTOFILL_RETRIES * CeilDiv(NumDistinct, AUTOFILL_BATCH_SIZE)

\* ------------------------------------------------------------------- C2
RepresentativeOf(k) ==
    fields[CHOOSE j \in FieldIndexes :
              /\ KeyOf(j) = KeyOf(k)
              /\ \A h \in 1..(j - 1) : KeyOf(h) # KeyOf(k)]

\* C2: when the run has ended, any two collected fields with the same
\* fingerprint were sent the same fills: a FILL_FORM_FIELD with value V for one
\* means a FILL_FORM_FIELD with value V for the other.
C2_FanOutAtEnd ==
    pc = "done" =>
        \A j, k \in FieldIndexes :
            KeyOf(j) = KeyOf(k) => SentValues(fields[j].uid) = SentValues(fields[k].uid)

\* What the apply loop does guarantee: two fields of one fingerprint that it
\* has both dealt with were sent the same value, and every value sent is the
\* cleaned answer the service gave for the uid of the fingerprint's first field.
FanOutAmongHandled ==
    /\ \A j, k \in FieldIndexes :
          (KeyOf(j) = KeyOf(k) /\ Handled(j) /\ Handled(k))
              => SentValues(fields[j].uid) = SentValues(fields[k].uid)
    /\ \A n \in 1..Len(sent) :
          \E k \in FieldIndexes, b \in 1..Len(batches), style \in ReplyStyles :
              /\ fields[k].uid = sent[n].uid
              /\ RepresentativeOf(k) \in Range(batches[b])
              /\ sent[n].value =
                    answersByUid(ModelReply(style, batches[b]), batches[b])[RepresentativeOf(k).uid]
              /\ sent[n].value # EmptyAnswer
    /\ IsCompleted => \A k \in FieldIndexes : Handled(k)

\* ------------------------------------------------------------------- C3
InFailedBatch(k) ==
    \E b \in failedBatches : KeyOf(k) \in BatchKeys(batches[b])

SkipReports ==
    {n \in 1..Len(outbox) :
        outbox[n].type = "AUTOFILL_PROGRESS" /\ outbox[n].kind \in SkipKinds}

\* C3: when the run has ended, every field whose fingerprint belongs to a batch
\* that ended in failure has an Error progress report, is counted as skipped,
\* and was never sent a FILL_FORM_FIELD.
C3_FailedBatchFieldsReportedAtEnd ==
    pc = "done" =>
        /\ \A k \in FieldIndexes :
              InFailedBatch(k) =>
                  /\ SentValues(fields[k].uid) = {}
                  /\ \E n \in ReportsOf(k) : outbox[n].kind = "progressError"
        /\ skipped >= Cardinality({k \in FieldIndexes : InFailedBatch(k)})

\* What the apply loop does guarantee: a field of a failed batch is never sent
\* a fill, and once the loop has dealt with it, it has exactly one report, an
\* Error report, counted among the skipped.
FailedBatchFieldsNeverFilled ==
    /\ \A k \in FieldIndexes :
          InFailedBatch(k) =>
              /\ SentValues(fields[k].uid) = {}
              /\ Handled(k) =>
                    /\ Cardinality(ReportsOf(k)) = 1
                    /\ \A n \in ReportsOf(k) :
                          /\ outbox[n].kind = "progressError"
                          /\ outbox[n].detail = errorByFingerprint[KeyOf(k)]
    /\ skipped = Cardinality(SkipReports)

\* ------------------------------------------------------------------- C4
\* C4: a run in which a batch failed still ends with the Completed summary,
\* with every field dealt with and the fields of the answered batches applied.
C4_FailedBatchRunCompletes ==
    (pc = "done" /\ failedBatches # {}) =>
        /\ IsCompleted
        /\ \A k \in FieldIndexes :
              (~InFailedBatch(k) /\ answerFor(KeyOf(k)) # EmptyAnswer)
                  => SentValues(fields[k].uid) # {}

\* What the pool does guarantee: a failed batch stops no other batch. When the
\* pool resolves every batch is answered or failed, and no status message ever
\* reports a batch's error.
BatchResolved(b) ==
    \/ b \in failedBatches /\ BatchKeys(batches[b]) \subseteq DOMAIN errorByFingerprint
    \/ b \notin failedBatches /\ BatchKeys(batches[b]) \subseteq DOMAIN answerByFingerprint

BatchFailureIsolated ==
    /\ pc \in {"applying", "done"} => \A b \in 1..Len(batches) : BatchResolved(b)
    /\ \A n \in 1..Len(outbox) :
          (outbox[n].type = "AUTOFILL_STATUS" /\ outbox[n].error)
              => outbox[n].kind \in {"errVectorStoreMissingPopup", "errApiKeyMissingPopup",
                                     "errUnableToReadFields", "chrome.runtime.lastError"}

\* ------------------------------------------------------------------- C5
\* C5: with valid credentials and a non-empty field list, the run ends only
\* with the non-error Completed summary, after every field was processed.
C5_RunAlwaysCompletes ==
    (pc = "done" /\ Len(fields) > 0) =>
        /\ Last(outbox).kind = "statusCompletedFilledSkipped"
        /\ ~Last(outbox).error
        /\ cursor > Len(fields)

\* ------------------------------------------------------------------- C6
InFlight == {w \in DOMAIN workers : workers[w].st \in {"inflight", "sleeping"}}

BatchStarted(b) ==
    \/ \E w \in InFlight : workers[w].b = b
    \/ b \in failedBatches
    \/ BatchKeys(batches[b]) \subseteq DOMAIN answerByFingerprint

\* C6: the batches whose retrieval is in flight, backoff sleeps included, are
\* at most C and at most the number of batches; no batch is in flight twice;
\* the other unresolved batches are in the queue, untouched, and a batch waits
\* in the queue only while C retrievals are in flight.
C6_AtMostCInFlight ==
    /\ Cardinality(InFlight) <= AUTOFILL_MAX_CONCURRENCY
    /\ Cardinality(InFlight) <= Len(batches)
    /\ \A v, w \in InFlight : workers[v].b = workers[w].b => v = w
    /\ \A n \in 1..Len(queue) : ~BatchStarted(queue[n])
    /\ \A b \in 1..Len(batches) : BatchStarted(b) \/ b \in Range(queue)
    /\ queue # <<>> => Cardinality(InFlight) = AUTOFILL_MAX_CONCURRENCY

\* Two retrievals in flight, one of them in a backoff sleep, a third queued.
C6_Witness ==
    /\ Cardinality(InFlight) = AUTOFILL_MAX_CONCURRENCY
    /\ queue # <<>>
    /\ \E w \in InFlight : workers[w].st = "sleeping"

\* ------------------------------------------------------------------- C7
BatchIndexes == 1..Len(batches)

IsHttp(e) == e.status # NoStatus /\ e = createHttpError(e.status)

\* The attempts made so far for batch b: the ended ones and the one in flight.
Attempts(b) ==
    Len(attemptLog[b])
      + (IF \E w \in DOMAIN workers : workers[w].st = "inflight" /\ workers[w].b = b
         THEN 1 ELSE 0)

WillRetry(b) == \E w \in DOMAIN workers : workers[w].st = "sleeping" /\ workers[w].b = b

\* The retryable failures as the claim lists them.
ListedRetryable(e) ==
    \/ e = timeoutError
    \/ IsHttp(e) /\ (e.status = 429 \/ e.status >= 500)

\* The retryable failures of the code: an HTTP 408 response is one as well.
RetryableFailure(e) ==
    \/ e = timeoutError
    \/ IsHttp(e) /\ (e.status = 408 \/ e.status = 429 \/ e.status >= 500)

\* C7 as stated: at most R attempts per batch, and an attempt is followed by
\* another only if it failed by a client-side timeout, HTTP 429 or HTTP >= 500.
C7_RetryOnlyListedFailures ==
    \A b \in BatchIndexes :
        /\ Attempts(b) <= AUTOFILL_RETRIES
        /\ \A n \in 1..Len(attemptLog[b]) :
              n < Attempts(b) => ListedRetryable(attemptLog[b][n])

\* C7 amended: at most R attempts per batch, and an attempt is followed by
\* another only if it failed by a client-side timeout or with HTTP 408, 429
\* or >= 500; after a success or any other failure no attempt follows, and no
\* attempt follows the R-th.
C7_RetryOnlyRetryableFailures ==
    \A b \in BatchIndexes :
        /\ Attempts(b) <= AUTOFILL_RETRIES
        /\ WillRetry(b) => Len(attemptLog[b]) < AUTOFILL_RETRIES
        /\ \A n \in 1..Len(attemptLog[b]) :
              (n < Attempts(b) \/ WillRetry(b)) => RetryableFailure(attemptLog[b][n])
        /\ \A w \in DOMAIN workers :
              (workers[w].st # "done" /\ workers[w].b = b) =>
                  workers[w].attempt =
                      (IF workers[w].st = "inflight" THEN Attempts(b) ELSE Len(attemptLog[b]))

\* A batch attempted R times: a timeout, a 500, then an answer.
C7_Witness ==
    \E b \in BatchIndexes, style \in ReplyStyles :
        attemptLog[b] = <<timeoutError, createHttpError(500), okResponse(style)>>

\* ------------------------------------------------------------------- C8
IsClientError(e) == IsHttp(e) /\ e.status >= 400 /\ e.status < 500

\* The batch ended in failure with its n-th attempt.
FatalAt(b, n) ==
    /\ n = Len(attemptLog[b])
    /\ n = Attempts(b)
    /\ ~WillRetry(b)
    /\ b \in failedBatches

\* C8 as stated: a 4xx response other than 429 ends the batch in failure at
\* once; a 429 or >= 500 response is retried while attempts remain.
C8_ClientErrorsFatalExcept429 ==
    \A b \in BatchIndexes : \A n \in 1..Len(attemptLog[b]) :
        LET e == attemptLog[b][n]
        IN  /\ (IsClientError(e) /\ e.status # 429) => FatalAt(b, n)
            /\ (IsHttp(e) /\ (e.status = 429 \/ e.status >= 500) /\ n < AUTOFILL_RETRIES)
                  => ~FatalAt(b, n)

\* C8 amended: a 4xx response other than 408 and 429 (401 and 403 among them)
\* ends the batch in failure at once; a 408, 429 or >= 500 response is retried
\* while attempts remain.
C8_ClientErrorsFatalExcept408And429 ==
    \A b \in BatchIndexes : \A n \in 1..Len(attemptLog[b]) :
        LET e == attemptLog[b][n]
        IN  /\ (IsClientError(e) /\ e.status \notin {408, 429}) => FatalAt(b, n)
            /\ (IsHttp(e) /\ (e.status \in {408, 429} \/ e.status >= 500)
                  /\ n < AUTOFILL_RETRIES)
                  => (~FatalAt(b, n) /\ (n < Attempts(b) \/ WillRetry(b)))

\* A batch whose 429 was retried and whose 403 then ended it in failure.
C8_Witness ==
    \E b \in failedBatches :
        attemptLog[b] = <<createHttpError(429), createHttpError(403)>>

\* ------------------------------------------------------------------- C9
\* The style of the answer that ended batch b's attempts.
AnsweredWith(b, style) ==
    /\ attemptLog[b] # <<>>
    /\ Last(attemptLog[b]) = okResponse(style)

\* The answer of field k when its batch b was answered with style.
ExpectedAnswer(k, b, style) ==
    answersByUid(ModelReply(style, batches[b]), batches[b])[RepresentativeOf(k).uid]

Fillable(b, style) ==
    {k \in FieldIndexes : ExpectedAnswer(k, b, style) # EmptyAnswer}

NthOf(S, n) == CHOOSE k \in S : Cardinality({j \in S : j <= k}) = n

\* C9: the outcome of a batch that was answered depends on the answer alone,
\* not on the failed attempts before it: the per-fingerprint answers are those
\* of the answer, no error is recorded, and when the run completes the fill
\* messages are the non-empty answers in page order and the counts follow.
C9_RetryTransparent ==
    \A b \in BatchIndexes, style \in ReplyStyles :
        AnsweredWith(b, style) =>
            /\ \A k \in FieldIndexes :
                  /\ KeyOf(k) \notin DOMAIN errorByFingerprint
                  /\ answerByFingerprint[KeyOf(k)] = ExpectedAnswer(k, b, style)
            /\ b \notin failedBatches
            /\ IsCompleted =>
                  /\ Len(sent) = Cardinality(Fillable(b, style))
                  /\ \A n \in 1..Len(sent) :
                        sent[n] = FillMsg(fields[NthOf(Fillable(b, style), n)].uid,
                                          ExpectedAnswer(NthOf(Fillable(b, style), n), b, style))
                  /\ filled = Len(sent) - refused
                  /\ skipped = Len(fields) - filled
                  /\ Last(outbox) = CompletedMsg(filled, skipped)

\* A completed run whose batch was answered after two 429 responses.
C9_Witness ==
    /\ IsCompleted
    /\ filled > 0
    /\ skipped > 0
    /\ \E style \in ReplyStyles :
          attemptLog[1] = <<createHttpError(429), createHttpError(429), okResponse(style)>>

\* ------------------------------------------------------------------ C10
\* C10: when the page returns no field, the run ends at once: its only message
\* is the 'no fields' status with error = false, no request was sent to the
\* service and no FILL_FORM_FIELD to the page, and no step follows.
C10_EmptyPageEndsQuietly ==
    (fieldsResponse = "ok" /\ pageFields = <<>>) =>
        /\ pc = "done"
        /\ outbox = <<StatusMsg("statusNoEditableFields", FALSE)>>
        /\ calls = 0
        /\ sent = <<>>
        /\ ~ENABLED Next

\* The page answered GET_FORM_FIELDS with an empty list.
C10_Witness ==
    /\ fieldsResponse = "ok"
    /\ pageFields = <<>>
    /\ fields = <<>>
    /\ pc = "done"

\* ------------------------------------------------------------------ C11
MissingSettings == ~settings.apiKey \/ ~settings.vectorStoreId

\* C11: when the API key or the store id is missing, the run ends at its
\* first step with one error status (error = true); the page is never asked
\* for its fields, no request is sent, no batch is built and nothing is retried.
C11_MissingSettingsEndRun ==
    MissingSettings =>
        /\ pc \in {"idle", "done"}
        /\ fieldsResponse = "none"
        /\ fields = <<>> /\ batches = <<>> /\ workers = <<>>
        /\ calls = 0 /\ failedAttempts = 0
        /\ sent = <<>>
        /\ pc = "idle" => outbox = <<>>
        /\ pc = "done" =>
              /\ outbox = <<StatusMsg(IF settings.apiKey THEN "errVectorStoreMissingPopup"
                                     ELSE "errApiKeyMissingPopup", TRUE)>>
              /\ ~ENABLED Next

\* A run that ended on a missing store id.
C11_Witness ==
    /\ settings.apiKey
    /\ ~settings.vectorStoreId
    /\ pc = "done"
    /\ outbox # <<>>
    /\ Last(outbox).error

\* ------------------------------------------------------------------ C12
\* The AUTOFILL_PROGRESS messages emitted so far, in order.
Progress == SelectSeq(outbox, LAMBDA m : m.type = "AUTOFILL_PROGRESS")

PoolBusy == pc = "retrieving"

\* C12: the progress reports are for fields 1, 2, 3, ... in that order, none
\* and no fill message is emitted while a batch is unresolved, and when the
\* run has ended there is exactly one for each of the N collected fields.
C12_OneProgressPerFieldInOrder ==
    /\ \A n \in 1..Len(Progress) : Progress[n].index = n /\ Progress[n].total = Len(fields)
    /\ PoolBusy => (Progress = <<>> /\ sent = <<>>)
    /\ pc = "done" => Len(Progress) = Len(fields)

\* What the apply loop does guarantee: the reports emitted are those of fields
\* 1..m in page order, one each, m the fields dealt with; none and no fill is
\* emitted before the pool resolved; a completed run has reported all N.
ProgressIsPageOrderPrefix ==
    /\ \A n \in 1..Len(Progress) : Progress[n].index = n /\ Progress[n].total = Len(fields)
    /\ PoolBusy => (Progress = <<>> /\ sent = <<>> /\ cursor = 0)
    /\ pc = "applying" => Len(Progress) = cursor - 1
    /\ (pc \in {"applying", "done"}) => \A b \in 1..Len(batches) : BatchResolved(b)
    /\ IsCompleted => Len(Progress) = Len(fields)

\* ------------------------------------------------------------------ C13
RunAborted ==
    /\ pc = "done"
    /\ outbox # <<>>
    /\ Last(outbox).kind = "chrome.runtime.lastError"

\* The fill messages the page answered with ok = true.
AnsweredOk == Len(sent) - refused - (IF RunAborted THEN 1 ELSE 0)

NotFoundTexts ==
    {<<>>, <<SentinelUpper>>, <<SentinelLower>>,
     <<Quote, SentinelUpper, Quote>>, <<Quote, SentinelLower, Quote>>}

\* The answer that ended batch b's attempts has nothing for field k: its key is
\* absent, its value is no string, or its text means 'no answer'.
NothingFor(k, b, style) ==
    LET reply == ModelReply(style, batches[b])
        u     == RepresentativeOf(k).uid
    IN  /\ AnsweredWith(b, style)
        /\ RepresentativeOf(k) \in Range(batches[b])
        /\ \/ u \notin DOMAIN reply
           \/ ~reply[u].isString
           \/ reply[u].text \in NotFoundTexts

HasNoAnswer(k) ==
    \E b \in BatchIndexes, style \in ReplyStyles : NothingFor(k, b, style)

\* C14: when the run has ended, every field whose fingerprint got no answer
\* (absent, empty or NOT_FOUND in any case) has a 'Not found' report, is
\* counted as skipped, and was sent no FILL_FORM_FIELD.
C14_NoAnswerReportedNotFoundAtEnd ==
    pc = "done" =>
        /\ \A k \in FieldIndexes :
              HasNoAnswer(k) =>
                  /\ SentValues(fields[k].uid) = {}
                  /\ \E n \in ReportsOf(k) : outbox[n].kind = "progressNotFound"
        /\ skipped >= Cardinality({k \in FieldIndexes : HasNoAnswer(k)})

\* What the apply loop does guarantee: a field without an answer is never sent
\* a fill, and once the loop has dealt with it, it has exactly one report, a
\* 'Not found' report, counted among the skipped.
NoAnswerNeverFilled ==
    /\ \A k \in FieldIndexes :
          HasNoAnswer(k) =>
              /\ SentValues(fields[k].uid) = {}
              /\ answerFor(KeyOf(k)) = EmptyAnswer
              /\ Handled(k) =>
                    /\ Cardinality(ReportsOf(k)) = 1
                    /\ \A n \in ReportsOf(k) : outbox[n].kind = "progressNotFound"
    /\ skipped = Cardinality(SkipReports)

\* ------------------------------------------------------------------ C15
\* The elements of a document that collectFields looks at.
Eligible(d) == {k \in 1..Len(d) : d[k].attached /\ ~shouldSkipInput(d[k])}

SensitiveNow(el) == isSensitiveFieldElement(el, getLabelText(el)).sensitive

\* C15: in every page state, collectFields(false) returns exactly the
\* descriptors of collectFields(true) that are not flagged sensitive, in the
\* same order; an eligible element that classifies as sensitive has its
\* descriptor in collectFields(true) and not in collectFields(false); and
\* the answer to a GET_FORM_FIELDS message with includeSensitive = false,
\* which is what a bulk run batches its requests from, holds no descriptor
\* that is flagged sensitive or that the descriptor classifier finds
\* sensitive.
C15_CollectFiltersSensitive ==
    LET wide == collectFields(dom, uidCounter, TRUE)
        narrow == collectFields(dom, uidCounter, FALSE)
    IN  /\ narrow.fields = SelectSeq(wide.fields, LAMBDA field : ~field.sensitive)
        /\ \A k \in Eligible(dom) :
              /\ getFieldDescriptor(wide.dom[k]) \in Range(wide.fields)
              /\ SensitiveNow(dom[k]) =>
                    /\ getFieldDescriptor(narrow.dom[k]) \notin Range(narrow.fields)
                    /\ getFieldDescriptor(wide.dom[k]).sensitive
        /\ (collected.type = "GET_FORM_FIELDS" /\ ~collected.includeSensitive) =>
              \A j \in 1..Len(collected.fields) :
                  /\ ~collected.fields[j].sensitive
                  /\ ~isSensitiveFieldDescriptor(collected.fields[j]).sensitive

\* A page with a password input and a plain input has answered a
\* GET_FORM_FIELDS message with includeSensitive = false.
C15_Witness ==
    /\ collected.type = "GET_FORM_FIELDS"
    /\ ~collected.includeSensitive
    /\ collected.fields # <<>>
    /\ \E k \in Eligible(dom) : dom[k].type = "password" /\ dom[k].uid # Unstamped
    /\ Len(collectFields(dom, uidCounter, TRUE).fields) > Len(collected.fields)

\* ------------------------------------------------------------------ C16
\* The FILL_FORM_FIELD exchange a behaviour ends with.
Filled == filling.type = "FILL_FORM_FIELD"

\* The uid of the exchange is in the script's fieldMap, and the position in
\* the document of the element it maps to.
TargetFound == filling.uid \in DOMAIN filling.mapBefore
Target == NodeIndex(filling.before, filling.mapBefore[filling.uid])

\* Positions of the elements the call assigned to.
Written == {NodeIndex(filling.before, filling.result.writes[n].node) :
               n \in 1..Len(filling.result.writes)}

RefusalError == "Refusing to fill sensitive field without explicit confirmation."

\* C16 (as claimed): a call of fillField on an element that classifies as
\* sensitive at the moment of the call, with allowSensitive = false, fails
\* with the refusal error and assigns nothing; and no call with
\* allowSensitive = false, which is how the bulk run calls it, assigns to an
\* element that classifies as sensitive at the moment of the call.
C16_NoSensitiveElementFilledWithoutConsent ==
    (Filled /\ ~filling.allowSensitive) =>
        /\ (TargetFound /\ SensitiveNow(filling.before[Target])) =>
              /\ ~filling.result.ok
              /\ filling.result.error = RefusalError
              /\ dom = filling.before
        /\ \A k \in Written : ~SensitiveNow(filling.before[k])

\* What does hold: the element the uid maps to is classified when the call
\* is made, whatever it was when it was collected, and a sensitive one is
\* refused with nothing assigned.
SensitiveTargetRefused ==
    (Filled /\ ~filling.allowSensitive /\ TargetFound
       /\ SensitiveNow(filling.before[Target])) =>
        /\ ~filling.result.ok
        /\ filling.result.error = RefusalError
        /\ filling.result.writes = <<>>
        /\ dom = filling.before

\* ------------------------------------------------------------------ C17
NotFoundError == "Field not found in page context."

\* No element of the document carries the uid of the exchange.
UidGone ==
    \A k \in 1..Len(filling.before) :
        filling.before[k].uid = filling.uid => ~filling.before[k].attached

\* C17 (as claimed): a call of fillField for a uid whose element is no longer
\* in the document fails with the 'field not found' error and assigns
\* nothing.
C17_RemovedElementNotFound ==
    (Filled /\ UidGone) =>
        /\ ~filling.result.ok
        /\ filling.result.error = NotFoundError
        /\ filling.result.writes = <<>>
        /\ dom = filling.before

\* What does hold: once the fieldMap has been rebuilt after the removal (no
\* availability check is pending), the call fails with 'field not found'.
RemovedElementNotFoundAfterCheck ==
    (Filled /\ UidGone /\ ~availabilityTimer) =>
        /\ ~filling.result.ok
        /\ filling.result.error = NotFoundError
        /\ dom = filling.before

\* ------------------------------------------------------------------ C18
\* Positions whose element differs from what it was before the call.
Changed == {k \in 1..Len(dom) : dom[k] # filling.before[k]}

\* C18: a call of fillField that returns ok = false assigns nothing,
\* dispatches no event and leaves every element as it was; a call that
\* returns ok = true makes exactly one assignment, to one element, and
\* dispatches its events on that element only. The only other elements whose
\* state differs afterwards are the radio buttons of the group of a button
\* that was checked, which the browser unchecks.
C18_OneMutationOnSuccessNoneOnFailure ==
    Filled =>
        /\ ~filling.result.ok =>
              /\ filling.result.writes = <<>>
              /\ filling.result.events = <<>>
              /\ filling.result.error # ""
              /\ dom = filling.before
        /\ filling.result.ok =>
              /\ Len(filling.result.writes) = 1
              /\ filling.result.events # <<>>
              /\ \A n \in 1..Len(filling.result.events) :
                    filling.result.events[n].node = filling.result.writes[1].node
              /\ \A k \in Changed \ Written :
                    /\ filling.result.writes[1].prop = "checked"
                    /\ \A j \in Written : sameRadioGroup(filling.before[k], filling.before[j])
                    /\ dom[k] = [filling.before[k] EXCEPT !.checked = FALSE]

\* A call has returned ok = true and the element it assigned to has changed.
C18_Witness ==
    /\ Filled
    /\ filling.result.ok
    /\ Changed # {}
    /\ Changed \subseteq Written

\* ------------------------------------------------------------------ C19
\* The value of the exchange, trimmed, is one word of the given vocabulary,
\* in any letter case.
ValueIn(vocabulary) ==
    /\ Len(trim(filling.value)) = 1
    /\ IsWord(trim(filling.value)[1])
    /\ trim(filling.value)[1][2] \in vocabulary

\* The call reached an element of the given kind: the uid was found and the
\* element was not refused as sensitive.
Reached(tag, type) ==
    /\ Filled
    /\ TargetFound
    /\ filling.before[Target].tag = tag
    /\ filling.before[Target].type = type
    /\ (SensitiveNow(filling.before[Target]) => filling.allowSensitive)

\* C19: on a checkbox, a value that after trimming is one of true, yes, 1,
\* checked (in any letter case) leaves it checked; one of false, no, 0,
\* unchecked leaves it unchecked; any other value fails with an error and
\* the checkbox keeps its state.
C19_CheckboxVocabulary ==
    Reached("input", "checkbox") =>
        IF ValueIn({"true", "yes", "1", "checked"})
        THEN filling.result.ok /\ dom[Target].checked
        ELSE IF ValueIn({"false", "no", "0", "unchecked"})
        THEN filling.result.ok /\ ~dom[Target].checked
        ELSE /\ ~filling.result.ok
             /\ filling.result.error # ""
             /\ dom[Target].checked = filling.before[Target].checked

\* "YES" was applied to an unchecked checkbox, which is now checked.
C19_Witness ==
    /\ Reached("input", "checkbox")
    /\ filling.value = Cap("yes")
    /\ ~filling.before[Target].checked
    /\ dom[Target].checked

\* ------------------------------------------------------------------ C20
\* The input and the texts and values of the options, as the match sees them.
Input == lowerCase(cleanText(filling.value))
OptionText(k) == lowerCase(cleanText(filling.before[Target].options[k].text))
OptionValue(k) == lowerCase(cleanText(filling.before[Target].options[k].value))
Options == 1..Len(filling.before[Target].options)

ExactMatches == {k \in Options : OptionText(k) = Input \/ OptionValue(k) = Input}
PartialMatches ==
    {k \in Options : includes(OptionText(k), Input) \/ includes(Input, OptionText(k))}

First(S) == CHOOSE k \in S : \A j \in S : k <= j

\* C20: on a select, with a value that is not empty, the option chosen is the
\* first one whose text or value equals the input in any letter case, if
\* there is one; otherwise the first one whose text contains the input or is
\* contained in it; the select takes the value of the chosen option. If no
\* option matches either way the call fails and the select keeps its value.
C20_SelectExactThenPartial ==
    (Reached("select", "select-one") /\ Input # <<>>) =>
        IF ExactMatches # {}
        THEN /\ filling.result.ok
             /\ dom[Target].value = filling.before[Target].options[First(ExactMatches)].value
        ELSE IF PartialMatches # {}
        THEN /\ filling.result.ok
             /\ dom[Target].value = filling.before[Target].options[First(PartialMatches)].value
        ELSE /\ ~filling.result.ok
             /\ dom[Target].value = filling.before[Target].value

\* "canada" was applied to a select whose second option, "Canada East", only
\* contains the input and whose third option, "Canada", equals it; the
\* select has the value of the third option.
C20_Witness ==
    /\ Reached("select", "select-one")
    /\ filling.value = W("canada")
    /\ OptionText(2) = W("canada") \o <<Space>> \o W("east")
    /\ OptionText(3) = W("canada")
    /\ dom[Target].value = filling.before[Target].options[3].value
    /\ dom[Target].value # filling.before[Target].options[2].value

\* ------------------------------------------------------------------ C21
\* Positions of the radio buttons of the group of the addressed button, and
\* their labels and values as the match sees them.
Group ==
    {k \in 1..Len(filling.before) :
        /\ filling.before[k].attached
        /\ filling.before[k].tag = "input"
        /\ filling.before[k].type = "radio"
        /\ filling.before[k].name = filling.before[Target].name}
RadioLabel(k) == lowerCase(getLabelText(filling.before[k]))
RadioValue(k) == lowerCase(cleanText(filling.before[k].value))

ExactRadios == {k \in Group : RadioLabel(k) = Input \/ RadioValue(k) = Input}
SubstringRadios == {k \in Group : includes(RadioLabel(k), Input)}

\* The call checked the radio button at position k, and assigned to no other
\* element.
CheckedOnly(k) ==
    /\ filling.result.ok
    /\ filling.result.writes = <<CheckedWrite(filling.before[k].node, TRUE)>>
    /\ dom[k].checked

\* C21 (as claimed): on a radio button with a name, with a value that is not
\* empty, the button checked is the first one of the group whose label or
\* value equals the input in any letter case, if there is one; only without
\* one, the first whose label contains the input. Without a name, or with no
\* button matching, the call fails and the document is as it was.
C21_RadioExactThenSubstring ==
    (Reached("input", "radio") /\ Input # <<>>) =>
        IF filling.before[Target].name = <<>>
        THEN ~filling.result.ok /\ dom = filling.before
        ELSE IF ExactRadios # {} THEN CheckedOnly(First(ExactRadios))
        ELSE IF SubstringRadios # {} THEN CheckedOnly(First(SubstringRadios))
        ELSE ~filling.result.ok /\ dom = filling.before

\* What does hold: the button checked is the first one of the group that
\* matches in either way, so a button whose label only contains the input is
\* taken before a later one that equals it; and the two failures are as
\* claimed.
RadioFirstMatchOfEitherKind ==
    (Reached("input", "radio") /\ Input # <<>>) =>
        IF filling.before[Target].name = <<>>
        THEN /\ ~filling.result.ok
             /\ filling.result.error = "Radio button has no name group."
             /\ dom = filling.before
        ELSE IF ExactRadios \cup SubstringRadios # {}
        THEN CheckedOnly(First(ExactRadios \cup SubstringRadios))
        ELSE /\ ~filling.result.ok
             /\ filling.result.error = "No matching radio option found."
             /\ dom = filling.before

\* "id" was applied to a group whose first button, "ID card", contains the
\* input and whose second button, "ID", equals it: the first one is checked.
SubstringTakenBeforeExact ==
    /\ Reached("input", "radio")
    /\ filling.value = W("id")
    /\ ExactRadios # {}
    /\ First(SubstringRadios) < First(ExactRadios)
    /\ CheckedOnly(First(SubstringRadios))

\* ------------------------------------------------------------------ C22
\* The three rules, read off a descriptor's metadata.
TypeRule(field) == field.tag = "input" /\ field.type = "password"
AutocompleteMatches(field) ==
    {k \in 1..Len(field.autocomplete) :
        /\ IsWord(field.autocomplete[k])
        /\ field.autocomplete[k][2] \in SENSITIVE_AUTOCOMPLETE_TOKENS}
PatternRule(field) ==
    \E part \in {field.label, field.name, field.id, field.placeholder, field.ariaLabel} :
        \E k \in 1..Len(part) : IsWord(part[k]) /\ part[k][2] \in SENSITIVE_PATTERN

Metadata(field) ==
    <<field.tag, field.type, field.autocomplete, field.label, field.name, field.id,
      field.placeholder, field.ariaLabel>>

\* C22: for every descriptor the page has answered GET_FORM_FIELDS with,
\* isSensitiveFieldDescriptor gives: sensitive with reason 'input type' for
\* a password input, whatever else it carries; otherwise sensitive with
\* reason 'autocomplete' and the first sensitive token, if a token of its
\* autocomplete attribute is in the sensitive set; otherwise sensitive, for
\* the pattern, if a word of its label, name, id, placeholder or aria-label
\* matches; otherwise not sensitive with an empty reason. Two descriptors
\* with the same metadata are classified alike.
C22_ClassifierRulesInOrder ==
    collected.type = "GET_FORM_FIELDS" =>
        /\ \A j \in 1..Len(collected.fields) :
              LET field == collected.fields[j]
                  result == isSensitiveFieldDescriptor(field)
              IN  IF TypeRule(field)
                  THEN result = [sensitive |-> TRUE, reason |-> <<"input type", "password">>]
                  ELSE IF AutocompleteMatches(field) # {}
                  THEN result = [sensitive |-> TRUE,
                                 reason |-> <<"autocomplete",
                                     field.autocomplete[First(AutocompleteMatches(field))][2]>>]
                  ELSE IF PatternRule(field)
                  THEN /\ result.sensitive
                       /\ result.reason = <<"field metadata matched sensitive pattern", "">>
                  ELSE result = [sensitive |-> FALSE, reason |-> <<"", "">>]
        /\ \A i, j \in 1..Len(collected.fields) :
              Metadata(collected.fields[i]) = Metadata(collected.fields[j]) =>
                  isSensitiveFieldDescriptor(collected.fields[i])
                      = isSensitiveFieldDescriptor(collected.fields[j])

\* The page has answered with a password input that also carries a sensitive
\* autocomplete token and a label matching the pattern, and with a field
\* that is no password input, carries a sensitive token and matches the
\* pattern too: the first is classified by its type, the second by its
\* token.
C22_Witness ==
    /\ collected.type = "GET_FORM_FIELDS"
    /\ \E j \in 1..Len(collected.fields) :
          /\ TypeRule(collected.fields[j])
          /\ AutocompleteMatches(collected.fields[j]) # {}
          /\ PatternRule(collected.fields[j])
          /\ isSensitiveFieldDescriptor(collected.fields[j]).reason[1] = "input type"
    /\ \E j \in 1..Len(collected.fields) :
          /\ ~TypeRule(collected.fields[j])
          /\ AutocompleteMatches(collected.fields[j]) # {}
          /\ PatternRule(collected.fields[j])
          /\ isSensitiveFieldDescriptor(collected.fields[j]).reason[1] = "autocomplete"

\* ------------------------------------------------------------------ C23
\* C23: in every page state, for every element that is eligible, the
\* classifier of elements gives the element and its label the same result,
\* sensitive flag and reason, as the classifier of descriptors gives the
\* descriptor getFieldDescriptor builds of it; and every descriptor the page
\* has answered GET_FORM_FIELDS with carries the flag and the reason the
\* classifier of descriptors gives it.
C23_ClassifiersAgree ==
    /\ \A k \in Eligible(dom) :
          isSensitiveFieldElement(dom[k], getLabelText(dom[k]))
              = isSensitiveFieldDescriptor(getFieldDescriptor(dom[k]))
    /\ collected.type = "GET_FORM_FIELDS" =>
          \A j \in 1..Len(collected.fields) :
              /\ collected.fields[j].sensitive
                    = isSensitiveFieldDescriptor(collected.fields[j]).sensitive
              /\ collected.fields[j].sensitiveReason
                    = isSensitiveFieldDescriptor(collected.fields[j]).reason

\* The page has answered with a field that only its placeholder makes
\* sensitive, flagged as the classifier of descriptors classifies it.
C23_Witness ==
    /\ collected.type = "GET_FORM_FIELDS"
    /\ \E j \in 1..Len(collected.fields) :
          LET field == collected.fields[j]
          IN  /\ field.sensitive
              /\ isSensitiveFieldDescriptor(field).sensitive
              /\ isSensitiveFieldDescriptor([field EXCEPT !.placeholder = <<>>]) = NotSensitive

\* ------------------------------------------------------------------ C28
\* The uids of the elements of a document, by element.
Stamps(d) == [node \in {d[k].node : k \in 1..Len(d)} |-> d[NodeIndex(d, node)].uid]

\* C28: in every page state, collectFields leaves the uid of every element
\* that has one as it is and returns it in the element's descriptor; and a
\* second collectFields with the same flag, the page not having changed in
\* between, returns the same descriptors with the same uids in the same
\* order and leaves stamps, counter and fieldMap as the first left them.
C28_UidAssignmentIdempotent ==
    \A includeSensitive \in BOOLEAN :
        LET once == collectFields(dom, uidCounter, includeSensitive)
            twice == collectFields(once.dom, once.uidCounter, includeSensitive)
        IN  /\ \A k \in 1..Len(dom) :
                  dom[k].uid # Unstamped => once.dom[k].uid = dom[k].uid
            /\ \A j \in 1..Len(once.fields) :
                  \E k \in Eligible(dom) :
                      /\ once.fields[j] = getFieldDescriptor(once.dom[k])
                      /\ dom[k].uid # Unstamped => once.fields[j].uid = dom[k].uid
            /\ twice.fields = once.fields
            /\ twice.dom = once.dom
            /\ twice.uidCounter = once.uidCounter
            /\ twice.fieldMap = once.fieldMap

\* The page has answered GET_FORM_FIELDS with two fields, one stamped when
\* the page loaded and one stamped later, after the page revealed it; a
\* collectFields now returns the same answer.
C28_Witness ==
    /\ collected.type = "GET_FORM_FIELDS"
    /\ Len(collected.fields) = 2
    /\ \E k \in 1..Len(dom) : dom[k].placeholder # <<>> /\ dom[k].uid = UidOf(2)
    /\ collectFields(dom, uidCounter, collected.includeSensitive).fields = collected.fields

\* ------------------------------------------------------------------ C29
\* C29 (as claimed): a HAS_FILLABLE_FORMS probe changes no element's uid,
\* nor the uid counter, nor the fieldMap.
C29_ProbeMutatesNothing ==
    [][OnHasFillableForms =>
          /\ Stamps(dom') = Stamps(dom)
          /\ uidCounter' = uidCounter
          /\ fieldMap' = fieldMap]_vars

\* What does hold: the probe changes nothing of an element but its uid, and
\* the uid of no element that has one; the availability check reports
\* whether collectFields(false) returns a field; and with no page change
\* since the last availability check the probe changes nothing at all.
ProbeKeepsPriorStamps ==
    [][/\ OnHasFillableForms =>
             /\ \A k \in 1..Len(dom) :
                   /\ dom'[k] = [dom[k] EXCEPT !.uid = dom'[k].uid]
                   /\ dom[k].uid # Unstamped => dom'[k].uid = dom[k].uid
             /\ ~availabilityTimer => UNCHANGED <<dom, uidCounter, fieldMap>>
       /\ AvailabilityCheck =>
             lastKnownHasForm' = (collectFields(dom, uidCounter, FALSE).fields # <<>>)]_vars

\* ------------------------------------------------------------------ C30
\* Positions of the elements in the document.
Live == {k \in 1..Len(dom) : dom[k].attached}

\* C30 (as claimed): once the script has collected the fields of the page as
\* it is (no availability check is pending), no two elements in the document
\* carry the same uid, and every uid of the fieldMap maps to the element
\* that carries it.
C30_UidOneToOne ==
    ~availabilityTimer =>
        /\ \A i, j \in Live :
              (i # j /\ dom[i].uid # Unstamped) => dom[i].uid # dom[j].uid
        /\ \A uid \in DOMAIN fieldMap : dom[NodeIndex(dom, fieldMap[uid])].uid = uid

\* What does hold: every uid of the fieldMap maps to an element that carries
\* it, no uid is beyond the counter, and no step changes the uid of an
\* element that has one.
UidTableMapsToCarrier ==
    /\ \A uid \in DOMAIN fieldMap : dom[NodeIndex(dom, fieldMap[uid])].uid = uid
    /\ \A k \in 1..Len(dom) :
          dom[k].uid # Unstamped => \E n \in 1..uidCounter : dom[k].uid = UidOf(n)

StampsKept ==
    [][\A node \in DOMAIN Stamps(dom) :
          Stamps(dom)[node] # Unstamped => Stamps(dom')[node] = Stamps(dom)[node]]_vars

\* The page copied a stamped element, the script has collected the fields
\* since, and two elements in the document carry the same uid.
TwoElementsOneUid ==
    /\ ~availabilityTimer
    /\ \E i, j \in Live : i # j /\ dom[i].uid # Unstamped /\ dom[i].uid = dom[j].uid

\* ------------------------------------------------------------------ C24
\* The click handler has run to its end on a declined confirmation.
Declined == flow.pc = "done" /\ flow.asked /\ ~flow.allowSensitive

\* The element has the value and the checked state it was loaded with.
AsLoaded(el) ==
    \E k \in 1..Len(Catalog) :
        /\ Catalog[k].ariaLabel = el.ariaLabel
        /\ Catalog[k].value = el.value
        /\ Catalog[k].checked = el.checked

\* C24: when the descriptor extracted at the click is sensitive and the user
\* declines the confirmation, no FILL_SINGLE_FIELD request exists then or
\* later in the flow, so the background makes no retrieval call; fillField
\* is not called and every element keeps its value and checked state.
C24_DeclinedFlowAborts ==
    Declined =>
        /\ flow.descriptor.sensitive
        /\ request = NoRequest
        /\ ~flow.applied
        /\ \A k \in 1..Len(dom) : AsLoaded(dom[k])

\* The user has declined the confirmation for a sensitive field, and the
\* status surface says so.
C24_Witness ==
    /\ Declined
    /\ hoverStatus # <<>>
    /\ hoverStatus[Len(hoverStatus)].message = <<"contentSensitiveFillCancelled", 0>>

\* ------------------------------------------------------------------ C25
\* The background has handled a request for a descriptor that classifies as
\* sensitive, without allowSensitive.
HandledWithoutConsent ==
    /\ request.st \notin {"none", "sent", "lost"}
    /\ request.isObject
    /\ isSensitiveFieldDescriptor(request.field).sensitive
    /\ ~request.allowSensitive

ConsentError == <<"errSensitiveFieldRequiresConfirmation", 0>>

\* C25 (as claimed): the handler answers such a request ok = false with the
\* 'requires explicit confirmation' error, having made no retrieval call.
C25_ConsentErrorWithoutRetrieval ==
    HandledWithoutConsent =>
        /\ request.calls = 0
        /\ request.attempt = 0
        /\ ~request.response.ok
        /\ request.response.error = ConsentError

\* C25 (amended): the handler makes no retrieval call for such a request, at
\* once or later, and answers it ok = false; the error is 'requires explicit
\* confirmation' when the API key and the vector store id are set, and the
\* error of the missing setting otherwise, as the settings are checked first.
C25_NoRetrievalWithoutConsent ==
    HandledWithoutConsent =>
        /\ request.st \in {"answered", "received"}
        /\ request.calls = 0
        /\ request.attempt = 0
        /\ ~request.response.ok
        /\ request.response.error =
              IF ~settings.apiKey THEN <<"errApiKeyMissingPopup", 0>>
              ELSE IF ~settings.vectorStoreId THEN <<"errVectorStoreMissingPopup", 0>>
              ELSE ConsentError

\* A request for a password field without allowSensitive has been answered
\* with the consent error.
C25_Witness ==
    /\ HandledWithoutConsent
    /\ request.field.type = "password"
    /\ request.response.error = ConsentError

\* ------------------------------------------------------------------ C26
\* The click handler has sent FILL_SINGLE_FIELD.
FlowSent == request.origin = "hover"

\* The element the flow's uid mapped to when fillField was called, and the
\* positions fillField assigned to.
FlowTargetFound == flow.descriptor.uid \in DOMAIN fieldMap
FlowTarget == NodeIndex(flow.before, fieldMap[flow.descriptor.uid])
FlowWritten ==
    {NodeIndex(flow.before, flow.result.writes[n].node) :
        n \in 1..Len(flow.result.writes)}

\* C26 (as claimed): a field that was not sensitive at the click and is
\* sensitive when the answer is applied is refused and nothing is assigned;
\* and the flow assigns to an element that is sensitive at that moment only
\* if the user confirmed in the flow.
C26_SensitiveMutatedOnlyIfConfirmed ==
    flow.applied =>
        /\ (FlowTargetFound /\ ~flow.asked /\ SensitiveNow(flow.before[FlowTarget])) =>
              /\ ~flow.result.ok
              /\ flow.result.error = RefusalError
              /\ flow.result.writes = <<>>
        /\ \A k \in FlowWritten : SensitiveNow(flow.before[k]) => flow.allowSensitive

\* What does hold: fillField is called with the outcome of the click's
\* confirmation, which was asked exactly when the descriptor was sensitive;
\* and the addressed element, if sensitive at that moment, is refused
\* without that confirmation.
AddressedFieldNeedsClickConsent ==
    /\ flow.descriptor # NoDescriptor => flow.asked = flow.descriptor.sensitive
    /\ FlowSent =>
          /\ flow.allowSensitive = flow.asked
          /\ request.allowSensitive = flow.allowSensitive
          /\ request.field = flow.descriptor
    /\ (flow.applied /\ FlowTargetFound /\ ~flow.allowSensitive
           /\ SensitiveNow(flow.before[FlowTarget])) =>
          /\ ~flow.result.ok
          /\ flow.result.error = RefusalError
          /\ flow.result.writes = <<>>

\* A text input was retyped to a password input while its request was in
\* flight, and the answer was refused.
RetypedInFlightRefused ==
    /\ flow.applied
    /\ ~flow.asked
    /\ FlowTargetFound
    /\ flow.before[FlowTarget].type = "password"
    /\ flow.result.error = RefusalError

\* ------------------------------------------------------------------ C27
\* Outcomes the status surface has displayed: every status but the progress
\* note of the click.
Outcomes ==
    SelectSeq(hoverStatus, LAMBDA status : status.message # <<"contentSearchingDocs", 0>>)

\* C27 (as claimed): a flow that has sent FILL_SINGLE_FIELD leads to the
\* status surface having displayed exactly one outcome.
C27_OutcomeEventuallyReported == FlowSent ~> (Len(Outcomes) = 1)

\* What does hold: the flow ends, having called showFieldStatus once for its
\* outcome; the outcome is displayed unless the hover controls were hidden
\* by then, and never more than one is.
FlowEnds == FlowSent ~> (flow.pc = "done")

OneReportPerFlow ==
    /\ Len(Outcomes) <= 1
    /\ (FlowSent /\ flow.pc = "done") => flow.reports = 1

OutcomeShownIfControlsUp ==
    [][(OnSingleFieldResponse \/ SendRejected) =>
          (Len(Outcomes') = 1) = (activeHoverField # NoField)]_vars

\* The flow has ended with the hover controls hidden: no outcome was
\* displayed.
OutcomeLost ==
    /\ FlowSent
    /\ flow.pc = "done"
    /\ flow.reports = 1
    /\ Outcomes = <<>>

\* ------------------------------------------------------------------ C31
\* The phases of processAutofill in their order. Deduplicating and batching
\* run synchronously between the answer to GET_FORM_FIELDS and the start of
\* the pool, inside one step, so they share the rank of that step's end.
PhaseRank(phase) ==
    CASE phase = "idle"       -> 0
      [] phase = "collecting" -> 1
      [] phase = "retrieving" -> 2
      [] phase = "applying"   -> 3
      [] phase = "done"       -> 4

TerminalKinds == {"statusNoEditableFields", "statusCompletedFilledSkipped"}

\* The terminal AUTOFILL_STATUS messages emitted so far.
TerminalStatuses ==
    {n \in 1..Len(outbox) :
        /\ outbox[n].type = "AUTOFILL_STATUS"
        /\ (outbox[n].error \/ outbox[n].kind \in TerminalKinds)}

\* A step of the run never goes back to a phase, and never leaves the phase
\* it ended in.
PhasesAdvance ==
    /\ PhaseRank(pc') >= PhaseRank(pc)
    /\ pc = "done" => (pc' = "done" /\ outbox' = outbox /\ sent' = sent)

\* No terminal status while the run is going, exactly one when it has ended,
\* and it is the last message emitted.
OneTerminalStatus ==
    /\ pc # "done" => TerminalStatuses = {}
    /\ pc = "done" => TerminalStatuses = {Len(outbox)}

\* C31: a run goes through collecting, deduplicating and batching, retrieving,
\* applying, completed in that order without going back; when every request
\* and page message eventually returns or fails, a started run ends; it emits
\* exactly one terminal AUTOFILL_STATUS (no fields, the completed summary, or
\* an error), and no progress or status message after it.
C31_RunEndsWithOneTerminalStatus ==
    /\ [][PhasesAdvance]_vars
    /\ []OneTerminalStatus
    /\ (pc # "idle") ~> (pc = "done")

\* A run over two batches, one of them failed, has ended with its summary
\* after progress reports for every field.
C31_Witness ==
    /\ IsCompleted
    /\ Len(batches) > 1
    /\ failedBatches # {}
    /\ TerminalStatuses = {Len(outbox)}
    /\ Len(outbox) = Len(fields) + 2

\* ------------------------------------------------------------------ C32
\* The outcomes logged for an attempt whose output text held no JSON object:
\* the invalid-output error of the check, or the read of an array, which
\* passes the check.
RejectedOutput(outcome) == outcome = invalidModelOutputError

ArrayOutput(outcome) == outcome = okResponse("array")

\* The collected fields whose fingerprint belongs to batch b.
FieldsOfBatch(b) == {k \in FieldIndexes : KeyOf(k) \in BatchKeys(batches[b])}

\* Attempt n of batch b was its last, its error is recorded for every
\* fingerprint of the batch, and no field of the batch is reported not found
\* or sent a fill.
FatalInvalidOutput(b, n) ==
    /\ n = Len(attemptLog[b])
    /\ \A w \in InFlight : workers[w].b # b
    /\ b \in failedBatches
    /\ \A key \in BatchKeys(batches[b]) :
          /\ key \in DOMAIN errorByFingerprint
          /\ key \notin DOMAIN answerByFingerprint
          /\ errorByFingerprint[key] = invalidModelOutputError.message
    /\ \A k \in FieldsOfBatch(b) :
          /\ SentValues(fields[k].uid) = {}
          /\ \A m \in ReportsOf(k) : outbox[m].kind = "progressError"

\* C32: an attempt whose output is unparsable or parses to something that is
\* no JSON object (null, a scalar, an array) fails the batch with the invalid
\* model output error: the attempt is not retried, every fingerprint of the
\* batch records that error, and no field of the batch is reported not found
\* or filled.
C32_NonObjectOutputFailsBatch ==
    \A b \in 1..Len(attemptLog) :
        \A n \in 1..Len(attemptLog[b]) :
            (RejectedOutput(attemptLog[b][n]) \/ ArrayOutput(attemptLog[b][n]))
                => FatalInvalidOutput(b, n)

\* What the check of the parsed value does guarantee: the claim for every
\* output it rejects (no JSON, null, a scalar).
RejectedOutputFailsBatch ==
    \A b \in 1..Len(attemptLog) :
        \A n \in 1..Len(attemptLog[b]) :
            RejectedOutput(attemptLog[b][n]) => FatalInvalidOutput(b, n)

\* A run has ended whose batch was answered with an array: no error is
\* recorded, and every field was reported not found.
ArrayReadAsNoAnswer ==
    /\ IsCompleted
    /\ Len(attemptLog) = 1
    /\ ArrayOutput(Last(attemptLog[1]))
    /\ errorByFingerprint = <<>>
    /\ \A k \in FieldIndexes :
          \E m \in ReportsOf(k) : outbox[m].kind = "progressNotFound"

\* ------------------------------------------------------------------ C33
\* The positions of the representatives of a field list: the fields no
\* earlier field shares the fingerprint of.
RepresentativeIndexes(fs) ==
    {k \in 1..Len(fs) :
        \A h \in 1..(k - 1) : fieldFingerprint(fs[h]) # fieldFingerprint(fs[k])}

\* The representatives in page order.
Representatives(fs) ==
    [n \in 1..Cardinality(RepresentativeIndexes(fs)) |->
        fs[NthOf(RepresentativeIndexes(fs), n)]]

RECURSIVE Concatenation(_)
Concatenation(seqs) ==
    IF seqs = <<>> THEN <<>> ELSE Head(seqs) \o Concatenation(Tail(seqs))

\* The batches bs partition the representatives of the field list fs.
Partitions(fs, bs) ==
    /\ \A k \in RepresentativeIndexes(fs) :
          Cardinality({b \in 1..Len(bs) : fieldFingerprint(fs[k]) \in BatchKeys(bs[b])}) = 1
    /\ \A b \in 1..Len(bs) :
          /\ Len(bs[b]) \in 1..AUTOFILL_BATCH_SIZE
          /\ b < Len(bs) => Len(bs[b]) = AUTOFILL_BATCH_SIZE
          /\ \A i, j \in 1..Len(bs[b]) :
                fieldFingerprint(bs[b][i]) = fieldFingerprint(bs[b][j]) => i = j
    /\ \A a, b \in 1..Len(bs) :
          a # b => BatchKeys(bs[a]) \cap BatchKeys(bs[b]) = {}
    /\ Concatenation(bs) = Representatives(fs)

\* C33: the step that batches the collected fields leaves every
\* representative in exactly one batch, every batch with between 1 and B
\* representatives, all but the last with exactly B, no two members of the
\* batches with the same fingerprint, and the batches one after the other
\* equal to the representatives in page order; the batches and the field list
\* do not change afterwards.
C33_BatchesPartitionRepresentatives ==
    [][/\ (pc = "collecting" /\ pc' = "retrieving") => Partitions(fields', batches')
       /\ pc \in {"retrieving", "applying"} => (batches' = batches /\ fields' = fields)]_vars

\* Six fields, the second a repeat of the first, batched as four and one:
\* the second member of the first batch is the third field of the page.
C33_Witness ==
    /\ pc = "retrieving"
    /\ Len(fields) = AUTOFILL_BATCH_SIZE + 2
    /\ KeyOf(1) = KeyOf(2)
    /\ Len(batches) = 2
    /\ Len(batches[2]) = 1
    /\ batches[1][2] = fields[3]

\* ------------------------------------------------------------------ C34
\* The position of the first field of a fingerprint.
FirstIndex(fs, key) ==
    CHOOSE k \in 1..Len(fs) :
        /\ fieldFingerprint(fs[k]) = key
        /\ \A h \in 1..(k - 1) : fieldFingerprint(fs[h]) # key

\* The descriptors that differ from field at most in uid, required,
\* autocomplete, aria-label, the sensitivity fields and letter case.
Variants(field) ==
    {[field EXCEPT !.uid = u, !.required = r, !.autocomplete = a, !.ariaLabel = l,
                   !.sensitive = s, !.sensitiveReason = t,
                   !.label = Text(field.label.w, c)] :
        <<u, r, a, l>> \in {UidOf(n) : n \in 1..MaxFields} \X BOOLEAN \X {"", "on"} \X {"", "again"},
        <<s, t, c>> \in BOOLEAN \X {"", "pattern"} \X BOOLEAN}

\* The members of the batches.
Members(bs) == UNION {Range(bs[b]) : b \in 1..Len(bs)}

KeepsFirstOccurrence(fs, bs) ==
    /\ \A f \in Members(bs) : f = fs[FirstIndex(fs, fieldFingerprint(f))]
    /\ \A k \in 1..Len(fs) :
          /\ \E f \in Members(bs) : fieldFingerprint(f) = fieldFingerprint(fs[k])
          /\ \A v \in Variants(fs[k]) : fieldFingerprint(v) = fieldFingerprint(fs[k])
          /\ \A j \in 1..(k - 1) : fs[k] \in Variants(fs[j]) => fs[k] \notin Members(bs)

\* C34: of the fields of one fingerprint the first in page order is the
\* representative: every descriptor sent for retrieval, and so every uid sent,
\* is the earliest field of its fingerprint; every fingerprint has its
\* representative; the fingerprint is the same for descriptors that differ
\* only in uid, required, autocomplete, aria-label, the sensitivity fields or
\* letter case; and such a later field is no representative.
C34_FirstOccurrenceRepresents ==
    [][(pc = "collecting" /\ pc' = "retrieving")
          => KeepsFirstOccurrence(fields', batches')]_vars

\* The second field repeats the first with another uid, in upper case,
\* required, with autocomplete and aria-label: the first batch starts with the
\* first and the third field, and its request is in flight with their uids.
C34_Witness ==
    /\ pc = "retrieving"
    /\ Len(fields) > 2
    /\ fields[2] \in Variants(fields[1])
    /\ fields[2].uid # fields[1].uid
    /\ fields[2].label # fields[1].label
    /\ fields[2].required # fields[1].required
    /\ fields[2].autocomplete # fields[1].autocomplete
    /\ fields[2].ariaLabel # fields[1].ariaLabel
    /\ batches[1][1].uid = fields[1].uid
    /\ batches[1][2].uid = fields[3].uid
    /\ workers[1] = Running(1, 1, NoError)

\* ------------------------------------------------------------------ C35
\* min(5000, 400 * 2^(k-1)) as the claim writes it.
BackoffFloor(k) ==
    IF 400 * Pow2(k - 1) < 5000 THEN 400 * Pow2(k - 1) ELSE 5000

\* Worker w's attempt ends in this step: the log of its batch grows.
AttemptEnds(w) ==
    /\ pc = "retrieving"
    /\ w \in DOMAIN workers
    /\ workers[w].st = "inflight"
    /\ Len(attemptLog'[workers[w].b]) = Len(attemptLog[workers[w].b]) + 1

\* What follows the end of worker w's attempt k with outcome e: a sleep of
\* the delay of attempt k if e is a retryable failure and k < R, no sleep
\* otherwise.
DelayFollows(w) ==
    LET b == workers[w].b
        k == workers[w].attempt
        e == Last(attemptLog'[b])
    IN  /\ k = Len(attemptLog'[b])
        /\ IF e.status # 200 /\ RetryableFailure(e) /\ k < AUTOFILL_RETRIES
           THEN /\ workers'[w].st = "sleeping"
                /\ workers'[w].b = b
                /\ workers'[w].attempt = k
                /\ workers'[w].delay >= BackoffFloor(k)
                /\ workers'[w].delay <= BackoffFloor(k) + 119
                /\ calls' = calls
           ELSE workers'[w].st # "sleeping"

\* An attempt after the first is sent only when the sleep ends.
RetryAfterSleep(w) ==
    (/\ w \in DOMAIN workers
     /\ workers'[w] # workers[w]
     /\ workers'[w].st = "inflight"
     /\ workers'[w].attempt > 1)
        => /\ workers[w].st = "sleeping"
           /\ workers'[w].b = workers[w].b
           /\ workers'[w].attempt = workers[w].attempt + 1
           /\ calls' = calls + 1

SleepWithinBounds ==
    \A w \in DOMAIN workers :
        workers[w].st = "sleeping" =>
            /\ workers[w].attempt \in 1..(AUTOFILL_RETRIES - 1)
            /\ workers[w].attempt = 1 => workers[w].delay \in 400..519
            /\ workers[w].attempt = 2 => workers[w].delay \in 800..919

\* C35: after the k-th attempt of a batch failed with a retryable failure and
\* k < R, the next attempt is sent only after a sleep of a delay between
\* min(5000, 400 * 2^(k-1)) and that plus 119 milliseconds (400..519 after the
\* first attempt, 800..919 after the second); after a success, after a failure
\* that is not retryable and after the R-th attempt there is no sleep.
C35_BackoffDelayBounds ==
    /\ []SleepWithinBounds
    /\ [][\A w \in DOMAIN workers' :
             /\ AttemptEnds(w) => DelayFollows(w)
             /\ RetryAfterSleep(w)]_vars

\* A batch timed out, was sent again after its sleep, was rate-limited, and
\* sleeps the longest delay of the second attempt.
C35_Witness ==
    /\ pc = "retrieving"
    /\ attemptLog[1] = <<timeoutError, createHttpError(429)>>
    /\ workers[1] = Sleeping(1, 2, createHttpError(429), 919)
    /\ calls = 2

\* ------------------------------------------------------------------ C36
\* Where a batch is: in the queue, with a worker, or processed.
Queued(b) == \E n \in 1..Len(queue) : queue[n] = b

HeldBy(b) == {w \in DOMAIN workers : workers[w].st # "done" /\ workers[w].b = b}

Answered(b) == BatchKeys(batches[b]) \subseteq DOMAIN answerByFingerprint

Failed(b) == BatchKeys(batches[b]) \subseteq DOMAIN errorByFingerprint

Processed(b) == Answered(b) \/ Failed(b)

\* Every batch is in exactly one place, at most once in the queue and with at
\* most one worker; no fingerprint is in both maps; and when the pool has
\* finished every batch is processed and every fingerprint of the collected
\* fields is a key of exactly one map.
PoolKeepsEveryBatchOnce ==
    /\ \A b \in BatchIndexes :
          /\ Cardinality({n \in 1..Len(queue) : queue[n] = b}) <= 1
          /\ Cardinality(HeldBy(b)) <= 1
          /\ (IF Queued(b) THEN 1 ELSE 0) + Cardinality(HeldBy(b))
                + (IF Processed(b) THEN 1 ELSE 0) = 1
          /\ ~(Answered(b) /\ Failed(b))
    /\ DOMAIN answerByFingerprint \cap DOMAIN errorByFingerprint = {}
    /\ (pc \in {"applying", "done"} /\ fields # <<>>) =>
          /\ \A b \in BatchIndexes : Processed(b)
          /\ DOMAIN answerByFingerprint \cup DOMAIN errorByFingerprint
                = DistinctFingerprints(fields)

\* A worker takes a batch only from the head of the queue, and the outcome of
\* a processed batch is recorded once: it never changes.
BatchMovesForward ==
    pc = "retrieving" =>
        \A b \in BatchIndexes :
            /\ (HeldBy(b) = {} /\ ~Processed(b)) =>
                  \/ Queued(b)' /\ HeldBy(b)' = {} /\ ~Processed(b)'
                  \/ b = Head(queue) /\ ~Queued(b)' /\ Cardinality(HeldBy(b)') = 1
            /\ Processed(b) =>
                  /\ HeldBy(b)' = {} /\ ~Queued(b)'
                  /\ \A key \in BatchKeys(batches[b]) :
                        /\ key \in DOMAIN answerByFingerprint =>
                              (/\ key \in DOMAIN answerByFingerprint'
                               /\ answerByFingerprint'[key] = answerByFingerprint[key])
                        /\ key \in DOMAIN errorByFingerprint =>
                              (/\ key \in DOMAIN errorByFingerprint'
                               /\ errorByFingerprint'[key] = errorByFingerprint[key])

\* C36: in every interleaving of the pool's workers each batch is taken from
\* the queue by exactly one worker and processed exactly once, none dropped
\* and none run twice; when the pool has finished every distinct fingerprint
\* is a key of the answer map or of the error map, never of both and never of
\* neither.
C36_EveryBatchProcessedOnce ==
    /\ []PoolKeepsEveryBatchOnce
    /\ [][BatchMovesForward]_vars

\* Three batches and two workers: the pool finished with the first batch
\* failed at its third attempt and the other two answered at their first.
C36_Witness ==
    /\ pc = "applying"
    /\ Len(batches) = 3
    /\ failedBatches = {1}
    /\ Answered(2) /\ Answered(3)
    /\ calls = 3 + 2

\* ------------------------------------------------------------------ C37
\* The uids sent in the request of batch b.
SuppliedUids(b) == {batches[b][i].uid : i \in 1..Len(batches[b])}

\* The model output has no string for uid u.
Unanswered(reply, u) == u \notin DOMAIN reply \/ ~reply[u].isString

\* The cleaned values of the keys of the output that are no supplied uid.
ForeignValues(reply, b) ==
    {cleanModelAnswer(reply[key].text) :
        key \in {u \in DOMAIN reply \ SuppliedUids(b) : reply[u].isString}}

\* C37: the answer map of a batch has exactly the supplied uids as its keys,
\* whatever keys the model output has; a supplied uid that the output lacks or
\* gives a value that is no string maps to the empty answer, is recorded as
\* such for its fingerprint and its fields are sent no fill; and no fill is
\* ever sent to a uid that was not collected or with the value of a key that
\* was not supplied.
C37_AnswerKeysAreSuppliedUids ==
    \A b \in BatchIndexes, style \in ReplyStyles :
        LET reply == ModelReply(style, batches[b])
            byUid == answersByUid(reply, batches[b])
        IN  /\ DOMAIN byUid = SuppliedUids(b)
            /\ \A u \in SuppliedUids(b) : Unanswered(reply, u) => byUid[u] = EmptyAnswer
            /\ AnsweredWith(b, style) =>
                  /\ \A k \in FieldsOfBatch(b) :
                        /\ answerByFingerprint[KeyOf(k)] = byUid[RepresentativeOf(k).uid]
                        /\ Unanswered(reply, RepresentativeOf(k).uid) =>
                              /\ SentValues(fields[k].uid) = {}
                              /\ \A m \in ReportsOf(k) : outbox[m].kind = "progressNotFound"
                  /\ \A n \in 1..Len(sent) :
                        /\ \E k \in FieldsOfBatch(b) : fields[k].uid = sent[n].uid
                        /\ sent[n].value \notin ForeignValues(reply, b)

\* A run has ended whose batch of four was answered with a value, the
\* sentinel, no key, a number, and a key that was not supplied: one fill was
\* sent, to the first field.
C37_Witness ==
    /\ IsCompleted
    /\ AnsweredWith(1, "mixed")
    /\ Len(batches[1]) = 4
    /\ ForeignValues(ModelReply("mixed", batches[1]), 1) # {}
    /\ Unanswered(ModelReply("mixed", batches[1]), batches[1][3].uid)
    /\ Unanswered(ModelReply("mixed", batches[1]), batches[1][4].uid)
    /\ {sent[n].uid : n \in 1..Len(sent)} = {batches[1][1].uid}
    /\ skipped = Len(fields) - 1

====
